---- MODULE Spec2Model ----
(***************************************************************************)
(* Model of the inventory collector (src/lambdafunction): the batch write  *)
(* protocol of collectors/base.py, the batch delete protocol of cleaner.py *)
(* and the region / account / driver orchestration of index.py.            *)
(*                                                                         *)
(* Each entry point is a state machine over its own group of variables;    *)
(* a specification runs one entry point and keeps the other groups idle.   *)
(***************************************************************************)
EXTENDS Integers, Sequences, FiniteSets, TLC

VARIABLES
    \* ---- batch_write_to_dynamodb (collectors/base.py) ----
    wItems,       \* the `items` argument: a sequence of records
    wTables,      \* the `table_objects` argument: TRUE for a usable table object
    wPc,          \* "init" | "call" | "chunkEnd" | "done" | "idle"
    wT,           \* table_idx (1-based) of the table being written
    wS,           \* start_idx (0-based) of the chunk being written
    wRequest,     \* request_items[table_name]: input positions still to be put
    wRetries,     \* retries
    wLoop,        \* table_items_written_this_loop
    wPrimary,     \* total_written_primary
    wRet,         \* the return value, -1 until the function returns
    \* ---- what the stores and an observer of the calls see ----
    wCalls,       \* batch_write_item calls issued for the current chunk
    wSleeps,      \* time.sleep calls made for the current chunk
    wPrevReq,     \* the request of the preceding call for the current chunk
    wPrevResp,    \* the store's answer to it
    wChunkAcc,    \* input positions the current store accepted in this chunk
    wAccepted,    \* per table: number of items that store accepted
    wLeft,        \* per table: items still unprocessed or failed at chunk end
    wFirst,       \* per table: the first-attempt requests, in order
    wOnlyUnproc,  \* every answer so far was "all items unprocessed"
    wSawFatal,    \* some call so far failed with a non-retryable error
    \* ---- batch_delete_items (cleaner.py) ----
    dInput,       \* the `delete_requests` argument: a sequence of keys
    dPc,          \* "init" | "call" | "loopEnd" | "returned" | "raised" | "idle"
    dRequest,     \* request_items[table_name]
    dRetries,     \* retries
    dDeleted,     \* successfully_deleted_count
    dRet,         \* the return value, -1 unless the function returned
    dRaised,      \* the exception the function raised, "none" unless it did
    dCalls,       \* batch_write_item calls issued
    dSleeps,      \* time.sleep calls made
    dPrevReq,     \* the request of the preceding call
    dPrevResp,    \* the store's answer to it
    dGone,        \* keys the store has deleted
    dOnlyUnproc,  \* every answer so far was "all requests unprocessed"
    \* ---- process_region (index.py), parallel_collect_and_save (base.py) ----
    rPc,          \* "start" | "gather" | "returned" | "raised" | "idle"
    cPc,          \* per collector task: "queued" | "collected" | "done" | "failed"
    cReturned,    \* per collector: length of the list collect() returned
    cBuffer,      \* per collector: len(self.items)
    cSaved,       \* per collector: what save() returned, -1 if it did not
    cCollects,    \* per collector: calls of collect()
    cSaves,       \* per collector: calls of save()
    rResults,     \* `results` of parallel_collect_and_save, in append order
    rAborted,     \* parallel_collect_and_save raised (index.py:45-47)
    rRet,         \* the value process_region returned, -1 until it does
    rFed,         \* add_resource calls made by process_region
    \* ---- process_account (index.py), one entry per account ----
    aPc,          \* "queued" | "assume" | "discover" | "global" | "globalSave" |
                  \* "submit" | "gather" | "returned" | "raised"
    aAssume,      \* how sts.assume_role ended: "none" | "ok" | "ClientError" | "Exception"
    aRegions,     \* sorted_regions
    aTotal,       \* total_items_saved_for_account
    aRet,         \* the value process_account returned, -1 until it does
    aAborted,     \* an exception reached the outer handler (index.py:180-184)
    aDiscoveries, \* calls of get_available_regions
    aFed,         \* add_resource calls made by process_account
    gRegion,      \* the region the storage collector is bound to, "none" before
    gItems,       \* len(storage_collected_items)
    gSaved,       \* what storage_collector.save() returned, -1 if it did not
    gCollects,    \* calls of storage_collector.collect()
    gSaves,       \* calls of storage_collector.save()
    rwPc,         \* per region worker: "none" | "queued" | "running" | "done" | "raised"
    rwRet,        \* per region worker: what process_region returned, -1 if it did not
    aResults,     \* region_results: per region no entry, 'Error' or the count
    \* ---- lambda_handler (index.py) ----
    hPc,          \* "start" | "consume" | "join" | "finalize" | "returned" | "idle"
    hConsumed,    \* accounts whose future the result loop has taken
    hTotal,       \* total_resources_collected_across_accounts
    hProcessed,   \* accounts_processed_count
    hErrors,      \* accounts_with_errors
    hStopped,     \* the deadline check broke the result loop
    hMetricsSaved,\* metrics_saved
    hSummary,     \* the body of the returned summary, <<>> until the return
    \* ---- MetricsAccumulator and save_metrics_to_dynamodb (metrics_calculator.py) ----
    mPc,          \* "idle" | "feeding" | "got" | "saved" | "racing"
    mAcc,         \* the accumulator's counters and dictionaries
    mFed,         \* the records passed to add_resource since the last reset
    mAdds,        \* add_resource calls so far
    mMetrics,     \* what the last get_metrics() returned
    mDate,        \* the date of the run
    mWritten,     \* items_to_save of the last save_metrics_to_dynamodb
    mStore,       \* per metrics table, the records it holds
    mSavedCount,  \* what the last save_metrics_to_dynamodb returned, -1 before
    tOps,         \* per thread inside add_resource: the updates still to make
    tTmp,         \* per thread: the counter value it has loaded, -1 if none
    \* ---- ResourceCollector.add_item and save (collectors/base.py) ----
    bPc,          \* "idle" | "open" | "saved": save() was the last call made
    bSelf,        \* the collector's account_id, account_name and region
    bTables,      \* self.tables
    bItems,       \* self.items, the buffer
    bStore,       \* per resource table, the records it holds
    bLast,        \* per resource table and id, the latest record it accepted
    bHanded,      \* the batches handed to the batch writer, with the outcome
    bRet,         \* what the last save() returned, -1 before
    bAdds,        \* add_item calls so far, which is also the clock
    bCalls,       \* per add_item call: the logical resource and the derived id
    \* ---- the sleeps of one retry loop (collectors/base.py, cleaner.py) ----
    kPc,          \* "idle" | "looping" | "left"
    kLoop,        \* "write" | "delete": the loop that runs
    kRetries,     \* retries
    kDelays,      \* the sleep_time of every sleep so far, in milliseconds
    \* ---- clear_dynamodb_table (cleaner.py) ----
    xPc,          \* "idle" | "scan" | "delete" | "returned"
    xTable,       \* the records the table holds
    xBefore,      \* the records the table held when the call began
    xKeys,        \* keys_to_delete_batches still to be handed to a delete
    xRequested,   \* the ids a delete request was issued for
    xDeleted,     \* total_deleted_count
    xStatus       \* the status returned, "" before

wVars == <<wItems, wTables, wPc, wT, wS, wRequest, wRetries, wLoop, wPrimary,
           wRet, wCalls, wSleeps, wPrevReq, wPrevResp, wChunkAcc, wAccepted,
           wLeft, wFirst, wOnlyUnproc, wSawFatal>>

dVars == <<dInput, dPc, dRequest, dRetries, dDeleted, dRet, dRaised, dCalls,
           dSleeps, dPrevReq, dPrevResp, dGone, dOnlyUnproc>>

rVars == <<rPc, cPc, cReturned, cBuffer, cSaved, cCollects, cSaves, rResults,
           rAborted, rRet, rFed>>

aVars == <<aPc, aAssume, aRegions, aTotal, aRet, aAborted, aDiscoveries, aFed,
           gRegion, gItems, gSaved, gCollects, gSaves, rwPc, rwRet, aResults>>

hVars == <<hPc, hConsumed, hTotal, hProcessed, hErrors, hStopped, hMetricsSaved,
           hSummary>>

mVars == <<mPc, mAcc, mFed, mAdds, mMetrics, mDate, mWritten, mStore, mSavedCount,
           tOps, tTmp>>

bVars == <<bPc, bSelf, bTables, bItems, bStore, bLast, bHanded, bRet, bAdds, bCalls>>

kVars == <<kPc, kLoop, kRetries, kDelays>>

xVars == <<xPc, xTable, xBefore, xKeys, xRequested, xDeleted, xStatus>>

vars == <<wVars, dVars, rVars, aVars, hVars, mVars, bVars, kVars, xVars>>

\* what a step of one entry point leaves alone
wOthers == <<dVars, rVars, aVars, hVars, mVars, bVars, kVars, xVars>>
dOthers == <<wVars, rVars, aVars, hVars, mVars, bVars, kVars, xVars>>
rOthers == <<wVars, dVars, aVars, hVars, mVars, bVars, kVars, xVars>>
aOthers == <<wVars, dVars, rVars, mVars, bVars, kVars, xVars>>
hOthers == <<wVars, dVars, rVars, mVars, bVars, kVars, xVars>>
mOthers == <<wVars, dVars, rVars, aVars, hVars, bVars, kVars, xVars>>
bOthers == <<wVars, dVars, rVars, aVars, hVars, mVars, kVars, xVars>>
kOthers == <<wVars, dVars, rVars, aVars, hVars, mVars, bVars, xVars>>
xOthers == <<wVars, dVars, rVars, aVars, hVars, mVars, bVars, kVars>>

----------------------------------------------------------------------------
(* Bounds of the model *)

\* the inputs have up to MaxChunks full chunks plus one record
MaxChunks == 2

\* a delete batch has up to MaxDelete requests, or a full batch of 25
MaxDelete == 3

\* a collector gathers up to MaxRecords records
MaxRecords == 1

\* an account has up to MaxRegions enabled regions
MaxRegions == 2

\* a run covers up to MaxAccounts accounts
MaxAccounts == 2

\* up to MaxAdds records are fed to the accumulator
MaxAdds == 2

\* up to MaxThreads threads call add_resource at the same time
MaxThreads == 2

\* up to MaxAddItems records are added to collector buffers
MaxAddItems == 2

----------------------------------------------------------------------------
(* Records and their sanitisation *)

MAX_BATCH_SIZE == 25

\* A record is a function from field names to values.  "NaN" stands for a
\* non-finite float, "None" for None, "str" for a storable scalar.
RecOk    == [id |-> "str", v |-> "str"]
RecNaN   == [id |-> "str", v |-> "NaN"]
RecVoid  == [id |-> "None", v |-> "NaN"]
RecEmpty == [k \in {} |-> "str"]

\* _to_dynamodb_compatible on a dict: the fields whose value converts to None
\* (None itself, NaN, Inf) are dropped, the others kept.
ToDynamodbCompatible(rec) ==
    [k \in {f \in DOMAIN rec : rec[f] \notin {"None", "NaN"}} |-> rec[k]]

\* Python truthiness of a dict
Truthy(rec) == DOMAIN rec # {}

Min(a, b) == IF a < b THEN a ELSE b

\* ceil(n / d)
CeilDiv(n, d) == (n + d - 1) \div d

\* `if item` at line 182 and `if sanitized` at line 194
Submittable(rec) == Truthy(rec) /\ Truthy(ToDynamodbCompatible(rec))

\* the positions lo..hi of items, ascending, whose record passes both filters
RECURSIVE KeptPositions(_, _, _)
KeptPositions(items, lo, hi) ==
    IF lo > hi THEN <<>>
    ELSE (IF Submittable(items[lo]) THEN <<lo>> ELSE <<>>)
         \o KeptPositions(items, lo + 1, hi)

\* batch_items = items_to_process[start_idx:start_idx + MAX_BATCH_SIZE], then
\* the two filters.  The result names the input positions (1-based) whose
\* sanitised record goes into the put requests.
PutRequests(items, start) ==
    KeptPositions(items, start + 1, Min(start + MAX_BATCH_SIZE, Len(items)))

----------------------------------------------------------------------------
(* batch_write_to_dynamodb(table_objects, items): collectors/base.py *)

WRITE_MAX_RETRIES == 5

Range(seq) == {seq[i] : i \in 1..Len(seq)}

\* the inputs: N records of one of a few shapes
ItemCounts == {0, 1} \cup {k * MAX_BATCH_SIZE + d : k \in 1..MaxChunks, d \in {0, 1}}

Shapes == {"ok", "nan", "voidHead", "voidTail", "emptyHead"}

InputItems(n, shape) ==
    [i \in 1..n |->
        CASE shape = "ok"        -> RecOk
          [] shape = "nan"       -> IF i % 2 = 1 THEN RecNaN ELSE RecOk
          [] shape = "voidHead"  -> IF i = 1 THEN RecVoid ELSE RecOk
          [] shape = "voidTail"  ->
                IF i > MAX_BATCH_SIZE * (CeilDiv(n, MAX_BATCH_SIZE) - 1)
                THEN RecVoid ELSE RecOk
          [] shape = "emptyHead" -> IF i = 1 THEN RecEmpty ELSE RecOk]

\* table_objects: TRUE is a table object with a name, FALSE one that fails
\* `not table or not hasattr(table, 'name')`
TableConfigs == {<<>>, <<TRUE>>, <<TRUE, TRUE>>, <<FALSE, TRUE>>, <<TRUE, FALSE>>}

NoResp == [kind |-> "none", unproc |-> <<>>]

\* What a store may answer to a request: nothing unprocessed, the last item
\* unprocessed, or every item unprocessed.
UnprocessedChoices(req) == {<<>>, <<req[Len(req)]>>, req}

\* a retry that sends the whole previous request again
RetryRequest_Whole(req, unproc) == req

\* line 223: request_items = {table_name: unprocessed_items}
RetryRequest(req, unproc) == unproc

\* line 214: processed_in_attempt
ProcessedInAttempt(size, unproc) == size - Len(unproc)

\* a non-retryable error handled like a retryable one
AfterFatalError_Retried(retries) ==
    [retries |-> retries + 1,
     pc |-> IF retries + 1 < WRITE_MAX_RETRIES THEN "call" ELSE "chunkEnd"]

\* lines 245-247: a non-retryable ClientError sets retries = max_retries and
\* breaks out of the retry loop
AfterFatalError(retries) == [retries |-> WRITE_MAX_RETRIES, pc |-> "chunkEnd"]

\* the count of whichever table was written last
PrimaryAfterTable_Last(tableIdx, loop, primary) == loop

\* lines 262-263: only the table at index 0 sets total_written_primary
PrimaryAfterTable(tableIdx, loop, primary) == IF tableIdx = 1 THEN loop ELSE primary

\* a chunk step that is off by one
NextStart_Skip(start) == start + MAX_BATCH_SIZE + 1

\* line 178: the next start_idx
NextStart(start) == start + MAX_BATCH_SIZE

\* The loops of lines 168-202 from table t (1-based), start s: skip unusable
\* table objects and chunks without a put request, close finished tables, and
\* stop at the next chunk that is sent or at the end of the function.
RECURSIVE Seek(_, _, _, _, _, _)
Seek(tables, items, t, s, loop, primary) ==
    IF t > Len(tables)
    THEN [pc |-> "done", t |-> t, s |-> 0, loop |-> loop, primary |-> primary]
    ELSE IF ~tables[t]
    THEN Seek(tables, items, t + 1, 0, 0, primary)
    ELSE IF s >= Len(items)
    THEN Seek(tables, items, t + 1, 0, 0, PrimaryAfterTable(t, loop, primary))
    ELSE IF PutRequests(items, s) = <<>>
    THEN Seek(tables, items, t, NextStart(s), loop, primary)
    ELSE [pc |-> "call", t |-> t, s |-> s, loop |-> loop, primary |-> primary]

WriteIdle ==
    /\ wItems = <<>> /\ wTables = <<>> /\ wPc = "idle"
    /\ wT = 0 /\ wS = 0 /\ wRequest = <<>> /\ wRetries = 0
    /\ wLoop = 0 /\ wPrimary = 0 /\ wRet = -1
    /\ wCalls = 0 /\ wSleeps = 0 /\ wPrevReq = <<>> /\ wPrevResp = NoResp
    /\ wChunkAcc = {} /\ wAccepted = <<>> /\ wLeft = <<>> /\ wFirst = <<>>
    /\ wOnlyUnproc = TRUE /\ wSawFatal = FALSE

WriteInit ==
    /\ \E n \in ItemCounts, shape \in Shapes : wItems = InputItems(n, shape)
    /\ wTables \in TableConfigs
    /\ wPc = "init"
    /\ wT = 0 /\ wS = 0 /\ wRequest = <<>> /\ wRetries = 0
    /\ wLoop = 0 /\ wPrimary = 0 /\ wRet = -1
    /\ wCalls = 0 /\ wSleeps = 0 /\ wPrevReq = <<>> /\ wPrevResp = NoResp
    /\ wChunkAcc = {}
    /\ wAccepted = [t \in 1..Len(wTables) |-> 0]
    /\ wLeft = [t \in 1..Len(wTables) |-> 0]
    /\ wFirst = [t \in 1..Len(wTables) |-> <<>>]
    /\ wOnlyUnproc = TRUE /\ wSawFatal = FALSE

\* Move to position `pos` (a result of Seek): either the first attempt of the
\* next chunk (lines 179-206) or the return (lines 265-266).
WriteGoto(pos) ==
    /\ wPc' = pos.pc
    /\ wT' = pos.t
    /\ wS' = pos.s
    /\ wLoop' = pos.loop
    /\ wPrimary' = pos.primary
    /\ wRetries' = 0
    /\ wCalls' = 0
    /\ wSleeps' = 0
    /\ wPrevReq' = <<>>
    /\ wPrevResp' = NoResp
    /\ wChunkAcc' = {}
    /\ IF pos.pc = "call"
       THEN /\ wRequest' = PutRequests(wItems, pos.s)
            /\ wRet' = wRet
       ELSE /\ wRequest' = <<>>
            /\ wRet' = pos.primary

\* lines 160-166: the early return, or the entry into the loops
WriteStart ==
    /\ wPc = "init"
    /\ UNCHANGED wOthers
    /\ IF wItems = <<>> \/ wTables = <<>>
       THEN /\ wPc' = "done"
            /\ wRet' = 0
            /\ UNCHANGED <<wT, wS, wRequest, wRetries, wLoop, wPrimary, wCalls,
                           wSleeps, wPrevReq, wPrevResp, wChunkAcc>>
       ELSE WriteGoto(Seek(wTables, wItems, 1, 0, 0, 0))
    /\ UNCHANGED <<wItems, wTables, wAccepted, wLeft, wFirst, wOnlyUnproc, wSawFatal>>

\* what every batch_write_item call leaves behind for an observer
WriteObserveCall(resp, accepted) ==
    /\ wCalls' = wCalls + 1
    /\ wPrevReq' = wRequest
    /\ wPrevResp' = resp
    /\ wChunkAcc' = wChunkAcc \cup accepted
    /\ wAccepted' = [wAccepted EXCEPT ![wT] = @ + Cardinality(accepted \ wChunkAcc)]
    /\ wFirst' = IF wCalls = 0 THEN [wFirst EXCEPT ![wT] = Append(@, wRequest)]
                 ELSE wFirst
    /\ wOnlyUnproc' = (wOnlyUnproc /\ resp.kind = "unprocessed" /\ resp.unproc = wRequest)
    /\ wSawFatal' = (wSawFatal \/ resp.kind = "fatal")

\* a loop test that admits one attempt too many
WriteLoopGoesOn_OneMore(retries) == retries <= WRITE_MAX_RETRIES

\* line 208: while retries < max_retries
WriteLoopGoesOn(retries) == retries < WRITE_MAX_RETRIES

\* lines 225-228, 241-243, 251-253: retries += 1, then the backoff sleep; the
\* `while retries < max_retries` test then decides whether another call follows
WriteBackoff ==
    /\ wRetries' = wRetries + 1
    /\ wSleeps' = wSleeps + 1
    /\ wPc' = IF WriteLoopGoesOn(wRetries + 1) THEN "call" ELSE "chunkEnd"

\* lines 210-219: the store processed every item of the request
WriteCallOk ==
    /\ wPc = "call"
    /\ UNCHANGED wOthers
    /\ wLoop' = wLoop + ProcessedInAttempt(Len(wRequest), <<>>)
    /\ wPc' = "chunkEnd"
    /\ WriteObserveCall([kind |-> "ok", unproc |-> <<>>], Range(wRequest))
    /\ UNCHANGED <<wItems, wTables, wT, wS, wRequest, wRetries, wPrimary, wRet,
                   wSleeps, wLeft>>

\* lines 210-228: the store left some items unprocessed
WriteCallUnprocessed ==
    /\ wPc = "call"
    /\ UNCHANGED wOthers
    /\ \E unproc \in UnprocessedChoices(wRequest) \ {<<>>} :
        /\ wLoop' = wLoop + ProcessedInAttempt(Len(wRequest), unproc)
        /\ wRequest' = RetryRequest(wRequest, unproc)
        /\ WriteObserveCall([kind |-> "unprocessed", unproc |-> unproc],
                            Range(wRequest) \ Range(unproc))
    /\ WriteBackoff
    /\ UNCHANGED <<wItems, wTables, wT, wS, wPrimary, wRet, wLeft>>

\* lines 230-243: a ClientError with a retryable code
WriteCallRetryableError ==
    /\ wPc = "call"
    /\ UNCHANGED wOthers
    /\ WriteObserveCall([kind |-> "retryable", unproc |-> <<>>], {})
    /\ WriteBackoff
    /\ UNCHANGED <<wItems, wTables, wT, wS, wRequest, wLoop, wPrimary, wRet, wLeft>>

\* lines 244-247: a ClientError with any other code
WriteCallFatalError ==
    /\ wPc = "call"
    /\ UNCHANGED wOthers
    /\ WriteObserveCall([kind |-> "fatal", unproc |-> <<>>], {})
    /\ wRetries' = AfterFatalError(wRetries).retries
    /\ wPc' = AfterFatalError(wRetries).pc
    /\ UNCHANGED <<wItems, wTables, wT, wS, wRequest, wLoop, wPrimary, wRet,
                   wSleeps, wLeft>>

\* lines 249-253: any other exception
WriteCallUnexpectedError ==
    /\ wPc = "call"
    /\ UNCHANGED wOthers
    /\ WriteObserveCall([kind |-> "unexpected", unproc |-> <<>>], {})
    /\ WriteBackoff
    /\ UNCHANGED <<wItems, wTables, wT, wS, wRequest, wLoop, wPrimary, wRet, wLeft>>

\* lines 255-263 and the loop headers: the retry loop is over; go on with the
\* next chunk, the next table, or return
WriteChunkEnd ==
    /\ wPc = "chunkEnd"
    /\ UNCHANGED wOthers
    /\ wLeft' = [wLeft EXCEPT ![wT] =
                    @ + Len(PutRequests(wItems, wS)) - Cardinality(wChunkAcc)]
    /\ WriteGoto(Seek(wTables, wItems, wT, NextStart(wS), wLoop, wPrimary))
    /\ UNCHANGED <<wItems, wTables, wAccepted, wFirst, wOnlyUnproc, wSawFatal>>

WriteNext ==
    \/ WriteStart
    \/ WriteCallOk
    \/ WriteCallUnprocessed
    \/ WriteCallRetryableError
    \/ WriteCallFatalError
    \/ WriteCallUnexpectedError
    \/ WriteChunkEnd

----------------------------------------------------------------------------
(* batch_delete_items(table, delete_requests): cleaner.py *)

DELETE_MAX_RETRIES == 7

DeleteSizes == (0..MaxDelete) \cup {MAX_BATCH_SIZE}

\* line 104: request_items = {table_name: unprocessed_items}
DeleteRetryRequest(req, unproc) == unproc

\* line 89: while retries < max_retries
DeleteLoopGoesOn(retries) == retries < DELETE_MAX_RETRIES

\* exhaustion that is only logged, as on the write path
DeleteAfterLoop_LogOnly(req) == "none"

\* lines 131-141: after the loop, unprocessed requests raise RuntimeError
DeleteAfterLoop(req) == IF req # <<>> THEN "RuntimeError" ELSE "none"

DeleteIdle ==
    /\ dInput = <<>> /\ dPc = "idle" /\ dRequest = <<>> /\ dRetries = 0
    /\ dDeleted = 0 /\ dRet = -1 /\ dRaised = "none" /\ dCalls = 0
    /\ dSleeps = 0 /\ dPrevReq = <<>> /\ dPrevResp = NoResp /\ dGone = {}
    /\ dOnlyUnproc = TRUE

DeleteInit ==
    /\ \E n \in DeleteSizes : dInput = [i \in 1..n |-> i]
    /\ dPc = "init" /\ dRequest = <<>> /\ dRetries = 0
    /\ dDeleted = 0 /\ dRet = -1 /\ dRaised = "none" /\ dCalls = 0
    /\ dSleeps = 0 /\ dPrevReq = <<>> /\ dPrevResp = NoResp /\ dGone = {}
    /\ dOnlyUnproc = TRUE

\* lines 78-87
DeleteStart ==
    /\ dPc = "init"
    /\ UNCHANGED dOthers
    /\ IF dInput = <<>>
       THEN dPc' = "returned" /\ dRet' = 0 /\ dRequest' = dRequest
       ELSE dPc' = "call" /\ dRet' = dRet /\ dRequest' = dInput
    /\ UNCHANGED <<dInput, dRetries, dDeleted, dRaised, dCalls, dSleeps,
                   dPrevReq, dPrevResp, dGone, dOnlyUnproc>>

DeleteObserveCall(resp, deleted) ==
    /\ dCalls' = dCalls + 1
    /\ dPrevReq' = dRequest
    /\ dPrevResp' = resp
    /\ dGone' = dGone \cup deleted
    /\ dOnlyUnproc' = (dOnlyUnproc /\ resp.kind = "unprocessed" /\ resp.unproc = dRequest)

\* lines 106-110, 117-119: retries += 1 and the backoff sleep, then the loop test
DeleteBackoff ==
    /\ dRetries' = dRetries + 1
    /\ dSleeps' = dSleeps + 1
    /\ dPc' = IF DeleteLoopGoesOn(dRetries + 1) THEN "call" ELSE "loopEnd"

\* lines 91-100: nothing unprocessed, return the count
DeleteCallOk ==
    /\ dPc = "call"
    /\ UNCHANGED dOthers
    /\ dDeleted' = dDeleted + (Len(dRequest) - 0)
    /\ dRet' = dDeleted + (Len(dRequest) - 0)
    /\ dPc' = "returned"
    /\ DeleteObserveCall([kind |-> "ok", unproc |-> <<>>], Range(dRequest))
    /\ UNCHANGED <<dInput, dRequest, dRetries, dRaised, dSleeps>>

\* lines 91-110: some requests unprocessed
DeleteCallUnprocessed ==
    /\ dPc = "call"
    /\ UNCHANGED dOthers
    /\ \E unproc \in UnprocessedChoices(dRequest) \ {<<>>} :
        /\ dDeleted' = dDeleted + (Len(dRequest) - Len(unproc))
        /\ dRequest' = DeleteRetryRequest(dRequest, unproc)
        /\ DeleteObserveCall([kind |-> "unprocessed", unproc |-> unproc],
                             Range(dRequest) \ Range(unproc))
    /\ DeleteBackoff
    /\ UNCHANGED <<dInput, dRet, dRaised>>

\* lines 112-119: a ClientError with a retryable code
DeleteCallRetryableError ==
    /\ dPc = "call"
    /\ UNCHANGED dOthers
    /\ DeleteObserveCall([kind |-> "retryable", unproc |-> <<>>], {})
    /\ DeleteBackoff
    /\ UNCHANGED <<dInput, dRequest, dDeleted, dRet, dRaised>>

\* lines 120-124: any other ClientError is raised again
DeleteCallFatalError ==
    /\ dPc = "call"
    /\ UNCHANGED dOthers
    /\ DeleteObserveCall([kind |-> "fatal", unproc |-> <<>>], {})
    /\ dPc' = "raised"
    /\ dRaised' = "ClientError"
    /\ UNCHANGED <<dInput, dRequest, dRetries, dDeleted, dRet, dSleeps>>

\* lines 125-129: any other exception is raised again
DeleteCallUnexpectedError ==
    /\ dPc = "call"
    /\ UNCHANGED dOthers
    /\ DeleteObserveCall([kind |-> "unexpected", unproc |-> <<>>], {})
    /\ dPc' = "raised"
    /\ dRaised' = "Exception"
    /\ UNCHANGED <<dInput, dRequest, dRetries, dDeleted, dRet, dSleeps>>

\* lines 131-141: the loop ran out of retries
DeleteLoopEnd ==
    /\ dPc = "loopEnd"
    /\ UNCHANGED dOthers
    /\ IF DeleteAfterLoop(dRequest) = "none"
       THEN dPc' = "returned" /\ dRet' = dDeleted /\ dRaised' = dRaised
       ELSE dPc' = "raised" /\ dRet' = dRet /\ dRaised' = DeleteAfterLoop(dRequest)
    /\ UNCHANGED <<dInput, dRequest, dRetries, dDeleted, dCalls, dSleeps,
                   dPrevReq, dPrevResp, dGone, dOnlyUnproc>>

DeleteNext ==
    \/ DeleteStart
    \/ DeleteCallOk
    \/ DeleteCallUnprocessed
    \/ DeleteCallRetryableError
    \/ DeleteCallFatalError
    \/ DeleteCallUnexpectedError
    \/ DeleteLoopEnd

----------------------------------------------------------------------------
(* process_region (index.py) and ResourceCollector.parallel_collect_and_save, *)
(* ResourceCollector.save (collectors/base.py)                                *)

\* index.py:35: regional_collectors holds three collector classes
NUM_REGIONAL_COLLECTORS == 3

\* base.py:30: the size of the collector pool and of the region pool
MAX_WORKERS == 10

Collectors == 1..NUM_REGIONAL_COLLECTORS

RECURSIVE SumOver(_, _)
SumOver(f, set) ==
    IF set = {} THEN 0
    ELSE LET x == CHOOSE y \in set : TRUE IN f[x] + SumOver(f, set \ {x})

RegionIdle ==
    /\ rPc = "idle"
    /\ cPc = <<>> /\ cReturned = <<>> /\ cBuffer = <<>> /\ cSaved = <<>>
    /\ cCollects = <<>> /\ cSaves = <<>>
    /\ rResults = <<>> /\ rAborted = FALSE /\ rRet = -1 /\ rFed = 0

\* lines 29-40: the collectors are constructed with an empty buffer
RegionInit ==
    /\ rPc = "start"
    /\ cPc = [c \in Collectors |-> "none"]
    /\ cReturned = [c \in Collectors |-> 0]
    /\ cBuffer = [c \in Collectors |-> 0]
    /\ cSaved = [c \in Collectors |-> -1]
    /\ cCollects = [c \in Collectors |-> 0]
    /\ cSaves = [c \in Collectors |-> 0]
    /\ rResults = <<>> /\ rAborted = FALSE /\ rRet = -1 /\ rFed = 0

\* index.py:43-44, base.py:374-388: every collector is submitted to the pool
RegionStart ==
    /\ rPc = "start"
    /\ UNCHANGED rOthers
    /\ rPc' = "gather"
    /\ cPc' = [c \in Collectors |-> "queued"]
    /\ UNCHANGED <<cReturned, cBuffer, cSaved, cCollects, cSaves, rResults,
                   rAborted, rRet, rFed>>

\* tasks the pool is running: at most MAX_WORKERS at a time
RunningCollectors == {c \in Collectors : cPc[c] = "collected"}

\* base.py:382, a collector's collect(): it returns its buffer
\* (ec2_collector.py:38), or an empty list after a fatal error while the
\* buffer keeps what was gathered (ec2_collector.py:39-41), or it raises
CollectorCollect(c) ==
    /\ rPc = "gather"
    /\ UNCHANGED rOthers
    /\ cPc[c] = "queued"
    /\ Cardinality(RunningCollectors) < MAX_WORKERS
    /\ cCollects' = [cCollects EXCEPT ![c] = @ + 1]
    /\ \E n \in 0..MaxRecords, how \in {"returns", "fatal", "raises"} :
        /\ cBuffer' = [cBuffer EXCEPT ![c] = n]
        /\ cReturned' = [cReturned EXCEPT ![c] = IF how = "returns" THEN n ELSE 0]
        /\ cPc' = [cPc EXCEPT ![c] = IF how = "raises" THEN "failed" ELSE "collected"]
    /\ UNCHANGED <<rPc, cSaved, cSaves, rResults, rAborted, rRet, rFed>>

\* base.py:350-370, save(): 0 without a write when the buffer is empty,
\* otherwise the buffer is emptied and the batch writer's count returned
SaveCounts(buffer) == 0..buffer

\* base.py:383, a collector's save() returns
CollectorSave(c) ==
    /\ rPc = "gather"
    /\ UNCHANGED rOthers
    /\ cPc[c] = "collected"
    /\ cSaves' = [cSaves EXCEPT ![c] = @ + 1]
    /\ \E count \in SaveCounts(cBuffer[c]) :
        cSaved' = [cSaved EXCEPT ![c] = count]
    /\ cBuffer' = [cBuffer EXCEPT ![c] = 0]
    /\ cPc' = [cPc EXCEPT ![c] = "done"]
    /\ UNCHANGED <<rPc, cReturned, cCollects, rResults, rAborted, rRet, rFed>>

\* base.py:383, a collector's save() raises (a collector with its own save)
CollectorSaveRaises(c) ==
    /\ rPc = "gather"
    /\ UNCHANGED rOthers
    /\ cPc[c] = "collected"
    /\ cSaves' = [cSaves EXCEPT ![c] = @ + 1]
    /\ cPc' = [cPc EXCEPT ![c] = "failed"]
    /\ UNCHANGED <<rPc, cReturned, cBuffer, cSaved, cCollects, rResults,
                   rAborted, rRet, rFed>>

\* a failed collector's exception leaves parallel_collect_and_save
CollectorResult_Propagates(c, pc, returned, saved) ==
    IF pc = "failed"
    THEN [raised |-> TRUE, collector |-> c, collected_items |-> 0, items_saved |-> 0]
    ELSE [raised |-> FALSE, collector |-> c, collected_items |-> returned,
          items_saved |-> saved]

\* base.py:380-384 and 391-402: the result of a finished task; a task that
\* raised gives an empty result
CollectorResult(c, pc, returned, saved) ==
    IF pc = "failed"
    THEN [raised |-> FALSE, collector |-> c, collected_items |-> 0, items_saved |-> 0]
    ELSE [raised |-> FALSE, collector |-> c, collected_items |-> returned,
          items_saved |-> saved]

Consumed(results) == {results[i].collector : i \in 1..Len(results)}

\* base.py:389-403: as_completed hands over a finished task
RegionConsume(c) ==
    /\ rPc = "gather"
    /\ UNCHANGED rOthers
    /\ ~rAborted
    /\ cPc[c] \in {"done", "failed"}
    /\ c \notin Consumed(rResults)
    /\ LET res == CollectorResult(c, cPc[c], cReturned[c], cSaved[c])
       IN  IF res.raised
           THEN rAborted' = TRUE /\ rResults' = rResults
           ELSE rAborted' = rAborted /\ rResults' = Append(rResults, res)
    /\ UNCHANGED <<rPc, cPc, cReturned, cBuffer, cSaved, cCollects, cSaves, rRet, rFed>>

\* an assignment where the sum should be
RegionSum_Overwrite(total, saved) == saved

\* index.py:54: region_total_items_saved += items_saved
RegionSum(total, saved) == total + saved

RECURSIVE RegionTotal(_)
RegionTotal(results) ==
    IF results = <<>> THEN 0
    ELSE RegionSum(RegionTotal(SubSeq(results, 1, Len(results) - 1)),
                   results[Len(results)].items_saved)

RECURSIVE CollectedCount(_)
CollectedCount(results) ==
    IF results = <<>> THEN 0
    ELSE Head(results).collected_items + CollectedCount(Tail(results))

\* base.py:404 and index.py:45-67: the pool has shut down (every task is
\* over); the results are summed, the collected items fed to the accumulator
RegionFinish ==
    /\ rPc = "gather"
    /\ UNCHANGED rOthers
    /\ \A c \in Collectors : cPc[c] \in {"done", "failed"}
    /\ rAborted \/ Consumed(rResults) = Collectors
    /\ LET results == IF rAborted THEN <<>> ELSE rResults
       IN  /\ rRet' = RegionTotal(results)
           /\ rFed' = rFed + CollectedCount(results)
    /\ rPc' = "returned"
    /\ UNCHANGED <<cPc, cReturned, cBuffer, cSaved, cCollects, cSaves, rResults, rAborted>>

RegionNext ==
    \/ RegionStart
    \/ \E c \in Collectors : CollectorCollect(c)
    \/ \E c \in Collectors : CollectorSave(c)
    \/ \E c \in Collectors : CollectorSaveRaises(c)
    \/ \E c \in Collectors : RegionConsume(c)
    \/ RegionFinish

----------------------------------------------------------------------------
(* lambda_handler (index.py): the state before it runs *)

DriverIdle ==
    /\ hPc = "idle" /\ hConsumed = {} /\ hTotal = 0 /\ hProcessed = 0
    /\ hErrors = <<>> /\ hStopped = FALSE /\ hMetricsSaved = -1 /\ hSummary = <<>>

----------------------------------------------------------------------------
(* process_account (index.py) *)

Regions == 1..MaxRegions

\* the names of a set of regions in sorted order
RECURSIVE Sorted(_)
Sorted(set) ==
    IF set = {} THEN <<>>
    ELSE LET m == CHOOSE x \in set : \A y \in set : x <= y
         IN  <<m>> \o Sorted(set \ {m})

\* base.py:32-37 and 291-300: the fallback list; here every region of the model
DEFAULT_REGIONS == Sorted(Regions)

\* base.py:269-300, then index.py:100: an override list, the enabled regions
\* or the fallback list, sorted
RegionChoices == {Sorted(set) : set \in SUBSET Regions}

Accounts == DOMAIN aPc

NoRegionState == [r \in Regions |-> "none"]

\* the entries of region_results
NoResult == [kind |-> "none", count |-> 0]
ErrorResult == [kind |-> "Error", count |-> 0]
CountResult(count) == [kind |-> "count", count |-> count]

AccountIdle ==
    /\ aPc = <<>> /\ aAssume = <<>> /\ aRegions = <<>> /\ aTotal = <<>>
    /\ aRet = <<>> /\ aAborted = <<>> /\ aDiscoveries = <<>> /\ aFed = <<>>
    /\ gRegion = <<>> /\ gItems = <<>> /\ gSaved = <<>> /\ gCollects = <<>>
    /\ gSaves = <<>> /\ rwPc = <<>> /\ rwRet = <<>> /\ aResults = <<>>

\* n accounts, none started; `first` is the state of each
AccountsInit(n, first) ==
    /\ aPc = [a \in 1..n |-> first]
    /\ aAssume = [a \in 1..n |-> "none"]
    /\ aRegions = [a \in 1..n |-> <<>>]
    /\ aTotal = [a \in 1..n |-> 0]
    /\ aRet = [a \in 1..n |-> -1]
    /\ aAborted = [a \in 1..n |-> FALSE]
    /\ aDiscoveries = [a \in 1..n |-> 0]
    /\ aFed = [a \in 1..n |-> 0]
    /\ gRegion = [a \in 1..n |-> "none"]
    /\ gItems = [a \in 1..n |-> 0]
    /\ gSaved = [a \in 1..n |-> -1]
    /\ gCollects = [a \in 1..n |-> 0]
    /\ gSaves = [a \in 1..n |-> 0]
    /\ rwPc = [a \in 1..n |-> NoRegionState]
    /\ rwRet = [a \in 1..n |-> [r \in Regions |-> -1]]
    /\ aResults = [a \in 1..n |-> [r \in Regions |-> NoResult]]

\* a failed role assumption that is logged and not returned from
AfterAssumeFailure_GoesOn == [pc |-> "discover", ret |-> -1]

\* lines 89-94: both handlers log and return 0
AfterAssumeFailure == [pc |-> "returned", ret |-> 0]

\* lines 72-94: sts.assume_role succeeds or raises
AccountAssumeRole(a) ==
    /\ aPc[a] = "assume"
    /\ UNCHANGED <<aOthers, hVars>>
    /\ \E how \in {"ok", "ClientError", "Exception"} :
        /\ aAssume' = [aAssume EXCEPT ![a] = how]
        /\ aPc' = [aPc EXCEPT ![a] = IF how = "ok" THEN "discover"
                                      ELSE AfterAssumeFailure.pc]
        /\ aRet' = [aRet EXCEPT ![a] = IF how = "ok" THEN @ ELSE AfterAssumeFailure.ret]
    /\ UNCHANGED <<aRegions, aTotal, aAborted, aDiscoveries, aFed, gRegion, gItems,
                   gSaved, gCollects, gSaves, rwPc, rwRet, aResults>>

\* a fan-out that starts right after the discovery
AfterDiscovery_FanOut == "submit"

\* lines 96-103: the storage collection follows the region discovery
AfterDiscovery == "global"

\* lines 96-100: get_available_regions and sorted()
AccountDiscover(a) ==
    /\ aPc[a] = "discover"
    /\ UNCHANGED <<aOthers, hVars>>
    /\ \E regions \in RegionChoices : aRegions' = [aRegions EXCEPT ![a] = regions]
    /\ aDiscoveries' = [aDiscoveries EXCEPT ![a] = @ + 1]
    /\ aPc' = [aPc EXCEPT ![a] = AfterDiscovery]
    /\ UNCHANGED <<aAssume, aTotal, aRet, aAborted, aFed, gRegion, gItems, gSaved,
                   gCollects, gSaves, rwPc, rwRet, aResults>>

\* storage_collector.py:30-33: the collector is bound to the region 'global'
STORAGE_REGION == "global"

\* lines 106-117 and 129-132: the storage collector is constructed and
\* collects; nothing is saved when it raises or returns nothing
AccountGlobalCollect(a) ==
    /\ aPc[a] = "global"
    /\ UNCHANGED <<aOthers, hVars>>
    /\ gRegion' = [gRegion EXCEPT ![a] = STORAGE_REGION]
    /\ gCollects' = [gCollects EXCEPT ![a] = @ + 1]
    /\ \E n \in 0..MaxRecords, how \in {"returns", "raises"} :
        /\ gItems' = [gItems EXCEPT ![a] = IF how = "returns" THEN n ELSE 0]
        /\ aPc' = [aPc EXCEPT ![a] = IF how = "returns" /\ n > 0 THEN "globalSave"
                                      ELSE "submit"]
    /\ UNCHANGED <<aAssume, aRegions, aTotal, aRet, aAborted, aDiscoveries, aFed,
                   gSaved, gSaves, rwPc, rwRet, aResults>>

\* lines 117-128: the items are fed to the accumulator, then saved
AccountGlobalSave(a) ==
    /\ aPc[a] = "globalSave"
    /\ UNCHANGED <<aOthers, hVars>>
    /\ aFed' = [aFed EXCEPT ![a] = @ + gItems[a]]
    /\ gSaves' = [gSaves EXCEPT ![a] = @ + 1]
    /\ \E count \in SaveCounts(gItems[a]) :
        /\ gSaved' = [gSaved EXCEPT ![a] = count]
        /\ aTotal' = [aTotal EXCEPT ![a] = @ + count]
    /\ aPc' = [aPc EXCEPT ![a] = "submit"]
    /\ UNCHANGED <<aAssume, aRegions, aRet, aAborted, aDiscoveries, gRegion, gItems,
                   gCollects, rwPc, rwRet, aResults>>

\* lines 126 and 131-132: save() raises and the handler logs it
AccountGlobalSaveRaises(a) ==
    /\ aPc[a] = "globalSave"
    /\ UNCHANGED <<aOthers, hVars>>
    /\ aFed' = [aFed EXCEPT ![a] = @ + gItems[a]]
    /\ gSaves' = [gSaves EXCEPT ![a] = @ + 1]
    /\ aPc' = [aPc EXCEPT ![a] = "submit"]
    /\ UNCHANGED <<aAssume, aRegions, aTotal, aRet, aAborted, aDiscoveries, gRegion,
                   gItems, gSaved, gCollects, rwPc, rwRet, aResults>>

\* lines 134-143: one process_region task per region is submitted
AccountSubmit(a) ==
    /\ aPc[a] = "submit"
    /\ UNCHANGED <<aOthers, hVars>>
    /\ rwPc' = [rwPc EXCEPT ![a] =
                  [r \in Regions |-> IF r \in Range(aRegions[a]) THEN "queued" ELSE "none"]]
    /\ aPc' = [aPc EXCEPT ![a] = "gather"]
    /\ UNCHANGED <<aAssume, aRegions, aTotal, aRet, aAborted, aDiscoveries, aFed,
                   gRegion, gItems, gSaved, gCollects, gSaves, rwRet, aResults>>

RunningRegions(a) == {r \in Regions : rwPc[a][r] = "running"}

\* line 139: the pool starts a queued task when a worker is free
RegionWorkerStart(a, r) ==
    /\ rwPc[a][r] = "queued"
    /\ UNCHANGED <<aOthers, hVars>>
    /\ Cardinality(RunningRegions(a)) < MAX_WORKERS
    /\ rwPc' = [rwPc EXCEPT ![a][r] = "running"]
    /\ UNCHANGED <<aPc, aAssume, aRegions, aTotal, aRet, aAborted, aDiscoveries, aFed,
                   gRegion, gItems, gSaved, gCollects, gSaves, rwRet, aResults>>

\* what process_region may return
RegionCounts == 0..MaxRecords

\* lines 29-67: process_region returns its total
RegionWorkerReturn(a, r) ==
    /\ rwPc[a][r] = "running"
    /\ UNCHANGED <<aOthers, hVars>>
    /\ \E count \in RegionCounts : rwRet' = [rwRet EXCEPT ![a][r] = count]
    /\ rwPc' = [rwPc EXCEPT ![a][r] = "done"]
    /\ UNCHANGED <<aPc, aAssume, aRegions, aTotal, aRet, aAborted, aDiscoveries, aFed,
                   gRegion, gItems, gSaved, gCollects, gSaves, aResults>>

\* lines 29-67: process_region raises
RegionWorkerRaise(a, r) ==
    /\ rwPc[a][r] = "running"
    /\ UNCHANGED <<aOthers, hVars>>
    /\ rwPc' = [rwPc EXCEPT ![a][r] = "raised"]
    /\ UNCHANGED <<aPc, aAssume, aRegions, aTotal, aRet, aAborted, aDiscoveries, aFed,
                   gRegion, gItems, gSaved, gCollects, gSaves, rwRet, aResults>>

\* a region error that reaches the outer handler, which returns 0
AfterRegionError_Escapes(total) == [aborted |-> TRUE, total |-> 0, result |-> ErrorResult]

\* lines 156-158: a region error is logged and recorded
AfterRegionError(total) == [aborted |-> FALSE, total |-> total, result |-> ErrorResult]

\* lines 145-158: as_completed hands over a finished region task
AccountConsume(a, r) ==
    /\ aPc[a] = "gather"
    /\ UNCHANGED <<aOthers, hVars>>
    /\ ~aAborted[a]
    /\ rwPc[a][r] \in {"done", "raised"}
    /\ aResults[a][r] = NoResult
    /\ IF rwPc[a][r] = "done"
       THEN /\ aResults' = [aResults EXCEPT ![a][r] = CountResult(rwRet[a][r])]
            /\ aTotal' = [aTotal EXCEPT ![a] = @ + rwRet[a][r]]
            /\ aAborted' = aAborted
       ELSE /\ aResults' = [aResults EXCEPT ![a][r] = AfterRegionError(aTotal[a]).result]
            /\ aTotal' = [aTotal EXCEPT ![a] = AfterRegionError(aTotal[a]).total]
            /\ aAborted' = [aAborted EXCEPT ![a] = AfterRegionError(aTotal[a]).aborted]
    /\ UNCHANGED <<aPc, aAssume, aRegions, aRet, aDiscoveries, aFed, gRegion, gItems,
                   gSaved, gCollects, gSaves, rwPc, rwRet>>

\* lines 139 (the pool shuts down: every region task is over) and 160-184
AccountReturn(a) ==
    /\ aPc[a] = "gather"
    /\ UNCHANGED <<aOthers, hVars>>
    /\ \A r \in Regions : rwPc[a][r] \in {"none", "done", "raised"}
    /\ aAborted[a] \/ \A r \in Range(aRegions[a]) : aResults[a][r] # NoResult
    /\ aRet' = [aRet EXCEPT ![a] = aTotal[a]]
    /\ aPc' = [aPc EXCEPT ![a] = "returned"]
    /\ UNCHANGED <<aAssume, aRegions, aTotal, aAborted, aDiscoveries, aFed, gRegion,
                   gItems, gSaved, gCollects, gSaves, rwPc, rwRet, aResults>>

AccountNext ==
    \/ \E a \in Accounts : AccountAssumeRole(a)
    \/ \E a \in Accounts : AccountDiscover(a)
    \/ \E a \in Accounts : AccountGlobalCollect(a)
    \/ \E a \in Accounts : AccountGlobalSave(a)
    \/ \E a \in Accounts : AccountGlobalSaveRaises(a)
    \/ \E a \in Accounts : AccountSubmit(a)
    \/ \E a \in Accounts, r \in Regions : RegionWorkerStart(a, r)
    \/ \E a \in Accounts, r \in Regions : RegionWorkerReturn(a, r)
    \/ \E a \in Accounts, r \in Regions : RegionWorkerRaise(a, r)
    \/ \E a \in Accounts, r \in Regions : AccountConsume(a, r)
    \/ \E a \in Accounts : AccountReturn(a)

----------------------------------------------------------------------------
(* lambda_handler (index.py) *)

\* line 269
MAX_ACCOUNT_WORKERS == 4

\* line 284: the result loop stops below this many milliseconds
DEADLINE_MS == 15000

\* the clock readings the result loop can see (line 283)
RemainingTimes == {DEADLINE_MS - 1, DEADLINE_MS}

\* what save_metrics_to_dynamodb may return (line 329)
MetricItemCounts == {0, 1, 2}

DriverInit ==
    /\ hPc = "start" /\ hConsumed = {} /\ hTotal = 0 /\ hProcessed = 0
    /\ hErrors = <<>> /\ hStopped = FALSE /\ hMetricsSaved = -1 /\ hSummary = <<>>

\* lines 202-205, 209-215 and 253-259: the early returns
EarlyReturn(status, message) == [statusCode |-> status, message |-> message]

\* lines 187-277: the accounts are listed, the tables configured and one
\* process_account task per account is submitted
DriverStart ==
    /\ hPc = "start"
    /\ UNCHANGED hOthers
    /\ \E how \in {"ok", "accountsError", "configError"} :
        IF how = "accountsError"
        THEN /\ hSummary' = EarlyReturn(500, "Failed to retrieve accounts")
             /\ hPc' = "returned"
             /\ aPc' = aPc
        ELSE IF Accounts = {}
        THEN /\ hSummary' = EarlyReturn(200, "No active accounts found.")
             /\ hPc' = "returned"
             /\ aPc' = aPc
        ELSE IF how = "configError"
        THEN /\ hSummary' = EarlyReturn(500, "DynamoDB configuration error")
             /\ hPc' = "returned"
             /\ aPc' = aPc
        ELSE /\ hSummary' = hSummary
             /\ hPc' = "consume"
             /\ aPc' = [a \in Accounts |-> "queued"]
    /\ UNCHANGED <<hConsumed, hTotal, hProcessed, hErrors, hStopped, hMetricsSaved>>
    /\ UNCHANGED <<aAssume, aRegions, aTotal, aRet, aAborted, aDiscoveries, aFed,
                   gRegion, gItems, gSaved, gCollects, gSaves, rwPc, rwRet, aResults>>

FinishedAccounts == {a \in Accounts : aPc[a] \in {"returned", "raised"}}

RunningAccounts == {a \in Accounts : aPc[a] \notin {"none", "queued", "returned", "raised"}}

\* line 273: the pool starts a queued task when a worker is free
AccountWorkerStart(a) ==
    /\ aPc[a] = "queued"
    /\ UNCHANGED <<aOthers, hVars>>
    /\ Cardinality(RunningAccounts) < MAX_ACCOUNT_WORKERS
    /\ aPc' = [aPc EXCEPT ![a] = "assume"]
    /\ UNCHANGED <<aAssume, aRegions, aTotal, aRet, aAborted, aDiscoveries, aFed,
                   gRegion, gItems, gSaved, gCollects, gSaves, rwPc, rwRet, aResults>>

\* lines 96-178 in one step, for the runs of lambda_handler: the regions are
\* discovered and the stores accept every write; the storage collector saves
\* the `count` records it collected and every region task returns `count`,
\* the records of its collectors that did not fail
AccountRest(a) ==
    /\ aPc[a] = "discover"
    /\ UNCHANGED <<aOthers, hVars>>
    /\ \E regions \in RegionChoices, count \in 0..MaxRecords :
        /\ aRegions' = [aRegions EXCEPT ![a] = regions]
        /\ rwPc' = [rwPc EXCEPT ![a] =
                      [r \in Regions |-> IF r \in Range(regions) THEN "done" ELSE "none"]]
        /\ rwRet' = [rwRet EXCEPT ![a] =
                       [r \in Regions |-> IF r \in Range(regions) THEN count ELSE -1]]
        /\ aResults' = [aResults EXCEPT ![a] =
                          [r \in Regions |-> IF r \in Range(regions)
                                             THEN CountResult(count) ELSE NoResult]]
        /\ gItems' = [gItems EXCEPT ![a] = count]
        /\ aFed' = [aFed EXCEPT ![a] = count * (1 + Len(regions))]
        /\ gSaved' = [gSaved EXCEPT ![a] = IF count > 0 THEN count ELSE -1]
        /\ gSaves' = [gSaves EXCEPT ![a] = IF count > 0 THEN 1 ELSE 0]
        /\ aTotal' = [aTotal EXCEPT ![a] = count * (1 + Len(regions))]
        /\ aRet' = [aRet EXCEPT ![a] = count * (1 + Len(regions))]
    /\ aDiscoveries' = [aDiscoveries EXCEPT ![a] = @ + 1]
    /\ gRegion' = [gRegion EXCEPT ![a] = STORAGE_REGION]
    /\ gCollects' = [gCollects EXCEPT ![a] = @ + 1]
    /\ aPc' = [aPc EXCEPT ![a] = "returned"]
    /\ UNCHANGED <<aAssume, aAborted>>

\* a deadline check that logs and goes on
ResultLoopGoesOn_NoBreak(stopped) == TRUE

\* lines 284-287: the break ends the result loop
ResultLoopGoesOn(stopped) == ~stopped

\* a total that keeps the last account's count only
DriverSum_Overwrite(total, saved) == saved

\* line 292: total_resources_collected_across_accounts += account_resources_saved
DriverSum(total, saved) == total + saved

\* lines 279-298: as_completed hands over a finished account task with time
\* left on the clock
DriverConsume(a) ==
    /\ hPc = "consume"
    /\ UNCHANGED <<hOthers, aVars>>
    /\ ResultLoopGoesOn(hStopped)
    /\ a \in FinishedAccounts \ hConsumed
    /\ \E remaining \in RemainingTimes : ~(remaining < DEADLINE_MS)
    /\ hConsumed' = hConsumed \cup {a}
    /\ IF aPc[a] = "returned"
       THEN /\ hTotal' = DriverSum(hTotal, aRet[a])
            /\ hProcessed' = hProcessed + 1
            /\ hErrors' = hErrors
       ELSE /\ hErrors' = Append(hErrors, a)
            /\ UNCHANGED <<hTotal, hProcessed>>
    /\ UNCHANGED <<hPc, hStopped, hMetricsSaved, hSummary>>

\* lines 279-287: a finished account task is handed over with less than the
\* deadline left: the loop breaks
DriverDeadline ==
    /\ hPc = "consume"
    /\ UNCHANGED <<hOthers, aVars>>
    /\ ~hStopped
    /\ FinishedAccounts \ hConsumed # {}
    /\ \E remaining \in RemainingTimes : remaining < DEADLINE_MS
    /\ hStopped' = TRUE
    /\ UNCHANGED <<hPc, hConsumed, hTotal, hProcessed, hErrors, hMetricsSaved, hSummary>>

\* line 273: leaving the with block shuts the pool down, which waits for
\* every submitted task
DriverJoin ==
    /\ hPc = "consume"
    /\ UNCHANGED <<hOthers, aVars>>
    /\ hStopped \/ hConsumed = Accounts
    /\ FinishedAccounts = Accounts
    /\ hPc' = "finalize"
    /\ UNCHANGED <<hConsumed, hTotal, hProcessed, hErrors, hStopped, hMetricsSaved, hSummary>>

\* lines 337-341
SummaryMessage(processed, total) ==
    IF processed < total THEN "Stopped early due to time limits." ELSE ""

\* lines 300-365: the metrics are saved and the summary is returned
DriverFinalize ==
    /\ hPc = "finalize"
    /\ UNCHANGED <<hOthers, aVars>>
    /\ \E saved \in MetricItemCounts :
        /\ hMetricsSaved' = saved
        /\ hSummary' = [statusCode |-> 200,
                        message |-> SummaryMessage(hProcessed, Cardinality(Accounts)),
                        totalResourcesSaved |-> hTotal,
                        metricsCalculated |-> saved > 0,
                        metricItemsSaved |-> saved,
                        accountsProcessedCount |-> hProcessed,
                        totalAccountsInOrg |-> Cardinality(Accounts),
                        accountsWithCriticalErrors |-> hErrors]
    /\ hPc' = "returned"
    /\ UNCHANGED <<hConsumed, hTotal, hProcessed, hErrors, hStopped>>

\* index.py:70-184 as seen by lines 289-298: an exception leaves
\* process_account (one that its handler of lines 180-184 does not contain,
\* such as one raised while that handler runs) and future.result() raises it
AccountRaises(a) ==
    /\ aPc[a] = "assume"
    /\ UNCHANGED <<aOthers, hVars>>
    /\ aPc' = [aPc EXCEPT ![a] = "raised"]
    /\ UNCHANGED <<aAssume, aRegions, aTotal, aRet, aAborted, aDiscoveries, aFed,
                   gRegion, gItems, gSaved, gCollects, gSaves, rwPc, rwRet, aResults>>

DriverNext ==
    \/ DriverStart
    \/ \E a \in Accounts : AccountWorkerStart(a)
    \/ \E a \in Accounts : AccountAssumeRole(a)
    \/ \E a \in Accounts : AccountRest(a)
    \/ \E a \in Accounts : DriverConsume(a)
    \/ DriverDeadline
    \/ DriverJoin
    \/ DriverFinalize

----------------------------------------------------------------------------
(* MetricsAccumulator (metrics_calculator.py) *)

\* item.get(key, default)
Get(item, key, default) == IF key \in DOMAIN item THEN item[key] ELSE default

\* str.lower() on the strings of the model
Lower(str) ==
    CASE str = "Running" -> "running"
      [] str = "Online" -> "online"
      [] OTHER -> str

\* value or fallback, on strings
StrOr(str, fallback) == IF str = "" THEN fallback ELSE str

When(cond, seq) == IF cond THEN seq ELSE <<>>

\* the accounts of the organisation and their names
ACCOUNT_NAMES == [a \in {"111", "222"} |-> IF a = "111" THEN "alpha" ELSE "beta"]

\* base.py:328-344: the envelope add_item stamps on every record
Envelope(type, account, region) ==
    [resourceType |-> type, accountId |-> account,
     accountName |-> ACCOUNT_NAMES[account], region |-> region]

\* records of the types the elif chain of add_resource handles, and one
\* without a type
HandledItems ==
    { Envelope("EC2Instance", "111", "us-east-1")
        @@ [instanceState |-> "Running", cwAgentMemoryDetected |-> TRUE,
            cwAgentDiskDetected |-> FALSE, ssmStatus |-> "Online",
            healthStatus |-> "Healthy"],
      Envelope("EC2Instance", "222", "sa-east-1") @@ [instanceState |-> "stopped"],
      Envelope("RDSInstance", "111", "sa-east-1")
        @@ [status |-> "available", engine |-> "mysql", multiAZ |-> TRUE],
      Envelope("RDSInstance", "222", "us-east-1") @@ [status |-> "stopped"],
      Envelope("S3Bucket", "111", "global") @@ [hasLifecycleRules |-> TRUE],
      Envelope("EBSVolume", "222", "us-east-1") @@ [attachedInstances |-> "[]"],
      Envelope("ElasticIP", "222", "sa-east-1"),
      Envelope("SecurityGroup", "111", "us-east-1") @@ [hasExposedIngressPorts |-> TRUE],
      Envelope("SecurityGroup", "222", "sa-east-1"),
      [accountId |-> "111", region |-> "us-east-1"] }

\* the records fed to add_resource: the handled ones, a running instance
\* whose agent reports disk only, and a record of a type no branch handles
MetricItems ==
    HandledItems
    \cup { Envelope("EC2Instance", "222", "us-east-1")
              @@ [instanceState |-> "running", cwAgentDiskDetected |-> TRUE],
            Envelope("LambdaFunction", "111", "sa-east-1") }

\* the key of a dictionary entry and of a plain counter
Entry(dict, key) == <<dict, key>>
Counter(name) == <<name, "">>

\* the updates add_resource makes: an increment or the name assignment
Inc(key) == [op |-> "inc", key |-> key, name |-> ""]
SetName(account, name) == [op |-> "name", key |-> Entry("account_names", account), name |-> name]

\* lines 215-251
ProcessEc2Item(item) ==
    LET state == Lower(StrOr(Get(item, "instanceState", ""), "unknown"))
        has_memory == Get(item, "cwAgentMemoryDetected", FALSE)
        has_disk == Get(item, "cwAgentDiskDetected", FALSE)
        ssm_status == Lower(Get(item, "ssmStatus", ""))
    IN  <<Inc(Counter("ec2_total")), Inc(Entry("ec2_states", state))>>
        \o When(state = "running",
                <<Inc(Counter("ec2_running"))>>
                \o When(has_memory, <<Inc(Counter("ec2_cw_memory"))>>)
                \o When(has_disk, <<Inc(Counter("ec2_cw_disk"))>>)
                \o When(has_memory /\ has_disk, <<Inc(Counter("ec2_cw_both"))>>)
                \o <<Inc(Counter(
                        IF ssm_status \in {"connected", "online"} THEN "ec2_ssm_connected"
                        ELSE IF ssm_status \in {"notinstalled", ""} THEN "ec2_ssm_notinstalled"
                        ELSE "ec2_ssm_notconnected"))>>)
        \o When(state = "stopped", <<Inc(Counter("ec2_stopped"))>>)
        \o <<Inc(Entry("ec2_health", Get(item, "healthStatus", "Unknown")))>>

\* lines 253-268
ProcessRdsItem(item) ==
    <<Inc(Counter("rds_total"))>>
    \o When(Lower(Get(item, "status", "")) = "available", <<Inc(Counter("rds_available"))>>)
    \o <<Inc(Entry("rds_engines", Get(item, "engine", "unknown")))>>
    \o When(Get(item, "multiAZ", FALSE), <<Inc(Counter("rds_multiaz"))>>)
    \o When(Get(item, "performanceInsightsEnabled", FALSE),
            <<Inc(Counter("rds_performance_insights"))>>)

\* lines 270-274
ProcessS3Item(item) ==
    <<Inc(Counter("s3_total"))>>
    \o When(Get(item, "hasLifecycleRules", FALSE), <<Inc(Counter("s3_with_lifecycle"))>>)

\* lines 276-295: no value, an empty spelling or JSON that is empty counts as
\* unattached; a string that does not parse is skipped
ProcessEbsItem(item) ==
    When(Get(item, "attachedInstances", "None") \in {"None", "", "[]", "null", "{}"},
         <<Inc(Counter("ebs_unattached"))>>)

\* lines 297-300
ProcessEipItem(item) ==
    When(Get(item, "instanceId", "") = "" /\ Get(item, "networkInterfaceId", "") = "",
         <<Inc(Counter("eip_unassociated"))>>)

\* lines 302-306
ProcessSgItem(item) ==
    <<Inc(Counter("sg_total"))>>
    \o When(Get(item, "hasExposedIngressPorts", FALSE),
            <<Inc(Counter("sg_with_exposed_ports"))>>)

\* lines 171-184: the types counted by a plain counter
PlainCounters ==
    [t \in {"VPC", "Subnet", "EFSFileSystem", "FSxFileSystem", "BackupPlan",
            "BackupVault", "BackupRecoveryPoint"} |->
        CASE t = "VPC" -> "vpc_total"
          [] t = "Subnet" -> "subnet_total"
          [] t = "EFSFileSystem" -> "efs_total"
          [] t = "FSxFileSystem" -> "fsx_total"
          [] t = "BackupPlan" -> "backup_plans"
          [] t = "BackupVault" -> "backup_vaults"
          [] OTHER -> "backup_recovery_points"]

\* lines 134-184: the updates of one add_resource call, in program order
Updates(item) ==
    LET resource_type == Get(item, "resourceType", "")
        account_id == Get(item, "accountId", "")
        account_name == Get(item, "accountName", "")
        region == Get(item, "region", "")
    IN  IF resource_type = "" THEN <<>>
        ELSE <<Inc(Entry("resource_counts", resource_type))>>
             \o When(account_id # "",
                     <<Inc(Entry("account_counts", account_id))>>
                     \o When(account_name # "", <<SetName(account_id, account_name)>>))
             \o When(region # "" /\ region # "global", <<Inc(Entry("region_counts", region))>>)
             \o CASE resource_type = "EC2Instance" -> ProcessEc2Item(item)
                  [] resource_type = "RDSInstance" -> ProcessRdsItem(item)
                  [] resource_type = "S3Bucket" -> ProcessS3Item(item)
                  [] resource_type = "EBSVolume" -> ProcessEbsItem(item)
                  [] resource_type = "ElasticIP" -> ProcessEipItem(item)
                  [] resource_type = "SecurityGroup" -> ProcessSgItem(item)
                  [] resource_type \in DOMAIN PlainCounters
                        -> <<Inc(Counter(PlainCounters[resource_type]))>>
                  [] OTHER -> <<>>

\* lines 71-122: reset() leaves every counter at 0 and every dictionary empty
EmptyAccumulator ==
    [count |-> [k \in {} |-> 0], order |-> <<>>, names |-> [a \in {} |-> ""]]

\* the value of a counter; a missing dictionary entry reads as 0
Count(acc, key) == IF key \in DOMAIN acc.count THEN acc.count[key] ELSE 0

IsDictEntry(key) == key[2] # ""

\* reading d[key] of a defaultdict inserts a missing key
Load(acc, key) ==
    IF IsDictEntry(key) /\ key \notin DOMAIN acc.count
    THEN [acc EXCEPT !.count = (key :> 0) @@ acc.count, !.order = Append(acc.order, key)]
    ELSE acc

Store(acc, key, value) == [acc EXCEPT !.count = (key :> value) @@ acc.count]

\* one update of add_resource, made in one piece
Apply(acc, update) ==
    IF update.op = "name"
    THEN [acc EXCEPT !.names = (update.key[2] :> update.name) @@ acc.names]
    ELSE Store(Load(acc, update.key), update.key, Count(acc, update.key) + 1)

RECURSIVE ApplyAll(_, _)
ApplyAll(acc, updates) ==
    IF updates = <<>> THEN acc
    ELSE ApplyAll(Apply(acc, Head(updates)), Tail(updates))

\* lines 134-184: add_resource run by one thread alone
AddResource(acc, item) == ApplyAll(acc, Updates(item))

RECURSIVE FeedAll(_, _)
FeedAll(acc, items) ==
    IF items = <<>> THEN acc ELSE FeedAll(AddResource(acc, Head(items)), Tail(items))

\* a guard that reports a full percentage for an empty denominator
SafePct_FullWhenEmpty(numer, denom) ==
    IF denom = 0 THEN 100
    ELSE LET q == (numer * 100) \div denom
             twice == 2 * ((numer * 100) % denom)
         IN  IF twice > denom \/ (twice = denom /\ q % 2 = 1) THEN q + 1 ELSE q

\* lines 15-22: the integer percentage, 0 for an empty denominator; round()
\* rounds a half to the even neighbour
SafePct(numer, denom) ==
    IF denom = 0 THEN 0
    ELSE LET q == (numer * 100) \div denom
             twice == 2 * ((numer * 100) % denom)
         IN  IF twice > denom \/ (twice = denom /\ q % 2 = 1) THEN q + 1 ELSE q

\* the entries of one dictionary, in insertion order
DictKeys(acc, dict) == SelectSeq(acc.order, LAMBDA k : k[1] = dict)

Max(a, b) == IF a >= b THEN a ELSE b

\* sorted(..., key=count, reverse=True): stable, so entries with equal counts
\* keep their insertion order
RECURSIVE SortedByCount(_, _)
SortedByCount(acc, keys) ==
    IF keys = <<>> THEN <<>>
    ELSE LET i == CHOOSE j \in 1..Len(keys) :
                    /\ \A k \in 1..Len(keys) : Count(acc, keys[k]) <= Count(acc, keys[j])
                    /\ \A k \in 1..(j - 1) : Count(acc, keys[k]) < Count(acc, keys[j])
             rest == [k \in 1..(Len(keys) - 1) |-> IF k < i THEN keys[k] ELSE keys[k + 1]]
         IN  <<keys[i]>> \o SortedByCount(acc, rest)

\* lines 325 and 335: [:10]
TOP_N == 10

\* a rollup that lists every entry
Take_All(seq, n) == seq

Take(seq, n) == SubSeq(seq, 1, Min(n, Len(seq)))

\* None, which fails the existence check like an empty dict
NoSection == RecEmpty

\* lines 421-431, in cents
EstimateSavings(acc) ==
    Count(acc, Counter("ebs_unattached")) * 1000 + Count(acc, Counter("eip_unassociated")) * 360

RECURSIVE SumCounts(_, _)
SumCounts(acc, keys) ==
    IF keys = <<>> THEN 0 ELSE Count(acc, Head(keys)) + SumCounts(acc, Tail(keys))

\* lines 317-419
GetMetrics(acc) ==
    LET C(name) == Count(acc, Counter(name))
        types == DictKeys(acc, "resource_counts")
        top_accounts == Take(SortedByCount(acc, DictKeys(acc, "account_counts")), TOP_N)
        top_regions == Take(SortedByCount(acc, DictKeys(acc, "region_counts")), TOP_N)
    IN  [global |->
            [totalResources |-> SumCounts(acc, types),
             resourceCounts |-> [t \in {types[i][2] : i \in 1..Len(types)} |->
                                    Count(acc, Entry("resource_counts", t))],
             accountDistribution |->
                [i \in 1..Len(top_accounts) |->
                    [accountId |-> top_accounts[i][2],
                     accountName |-> Get(acc.names, top_accounts[i][2], top_accounts[i][2]),
                     count |-> Count(acc, top_accounts[i])]],
             regionDistribution |->
                [i \in 1..Len(top_regions) |->
                    [region |-> top_regions[i][2], count |-> Count(acc, top_regions[i])]],
             resourceRegionsFound |-> Len(DictKeys(acc, "region_counts"))],
         ec2 |->
            IF C("ec2_total") > 0
            THEN [total |-> C("ec2_total"),
                  memoryMonitoring |-> C("ec2_cw_memory"),
                  diskMonitoring |-> C("ec2_cw_disk"),
                  bothEnabled |-> C("ec2_cw_both"),
                  noneEnabled |->
                    Max(C("ec2_running") - Max(C("ec2_cw_memory"), C("ec2_cw_disk")), 0),
                  percentageWithMemory |-> SafePct(C("ec2_cw_memory"), C("ec2_running")),
                  percentageWithDisk |-> SafePct(C("ec2_cw_disk"), C("ec2_running")),
                  percentageConnected |-> SafePct(C("ec2_ssm_connected"), C("ec2_running"))]
            ELSE NoSection,
         rds |->
            IF C("rds_total") > 0
            THEN [total |-> C("rds_total"),
                  available |-> C("rds_available"),
                  percentageMultiAZ |-> SafePct(C("rds_multiaz"), C("rds_total")),
                  percentageWithPerfInsights |->
                    SafePct(C("rds_performance_insights"), C("rds_total"))]
            ELSE NoSection,
         storage |->
            [s3Buckets |-> C("s3_total"),
             s3WithLifecycle |-> C("s3_with_lifecycle"),
             ebsVolumes |-> Count(acc, Entry("resource_counts", "EBSVolume")),
             ebsSnapshots |-> Count(acc, Entry("resource_counts", "EBSSnapshot")),
             amiSnapshots |-> Count(acc, Entry("resource_counts", "AMI")),
             efsFileSystems |-> C("efs_total"),
             fsxFileSystems |-> C("fsx_total"),
             backupPlans |-> C("backup_plans"),
             backupVaults |-> C("backup_vaults"),
             backupRecoveryPoints |-> C("backup_recovery_points")],
         cost |->
            [unattachedEBSVolumes |-> C("ebs_unattached"),
             unassociatedElasticIPs |-> C("eip_unassociated"),
             potentialMonthlySavings |-> EstimateSavings(acc)],
         security |->
            [securityGroups |-> C("sg_total"),
             exposedSecurityGroups |-> C("sg_with_exposed_ports"),
             percentageExposed |-> SafePct(C("sg_with_exposed_ports"), C("sg_total"))]]

----------------------------------------------------------------------------
(* save_metrics_to_dynamodb (metrics_calculator.py) and a run's use of the
   accumulator (index.py:195, 307, 329) *)

\* the days on which runs happen (date_str, line 474)
Dates == <<"2024-01-01", "2024-01-02">>

\* index.py:246: the metrics tables, production first
METRICS_TABLES == 1..2

\* lines 481 and 509: the two kinds of id
CurrentId(category) == <<"METRICS", category, "CURRENT">>
DatedId(category, date) == <<"METRICS", category, date>>

\* lines 480-504: a metric record; the section's values ride along
MetricRecord(id, type, date, section) ==
    [id |-> id, resourceType |-> type, accountId |-> "GLOBAL", region |-> "global",
     metricDate |-> date, isMetric |-> TRUE, data |-> section]

\* lines 477-602: items_to_save
ItemsToSave(metrics, date) ==
    <<MetricRecord(CurrentId("GLOBAL"), "METRIC_SUMMARY", date, metrics.global),
      MetricRecord(DatedId("GLOBAL", date), "METRIC_SUMMARY", date, metrics.global)>>
    \o When(Truthy(metrics.ec2),
            <<MetricRecord(CurrentId("EC2"), "METRIC_EC2_HEALTH", date, metrics.ec2),
              MetricRecord(DatedId("EC2", date), "METRIC_EC2_HEALTH", date, metrics.ec2)>>)
    \o When(Truthy(metrics.rds),
            <<MetricRecord(CurrentId("RDS"), "METRIC_RDS", date, metrics.rds)>>)
    \o When(Truthy(metrics.storage),
            <<MetricRecord(CurrentId("STORAGE"), "METRIC_STORAGE", date, metrics.storage)>>)
    \o When(Truthy(metrics.cost),
            <<MetricRecord(CurrentId("COST"), "METRIC_COST", date, metrics.cost)>>)
    \o When(Truthy(metrics.security),
            <<MetricRecord(CurrentId("SECURITY"), "METRIC_SECURITY", date, metrics.security)>>)

\* a put replaces the record with the same id; the table keeps id and date
Upsert(held, items) ==
    LET new == {[id |-> items[i].id, metricDate |-> items[i].metricDate] :
                    i \in 1..Len(items)}
    IN  {r \in held : \A n \in new : n.id # r.id} \cup new

\* lines 605-620: the count of the last table whose write did not raise
RECURSIVE TotalSaved(_, _, _)
TotalSaved(outcome, n, t) ==
    IF t = 0 THEN 0
    ELSE IF outcome[t] = "raises" THEN TotalSaved(outcome, n, t - 1)
    ELSE IF outcome[t] = "all" THEN n ELSE 0

MetricsIdle ==
    /\ mPc = "idle" /\ mAcc = EmptyAccumulator /\ mFed = <<>> /\ mAdds = 0
    /\ mMetrics = RecEmpty /\ mDate = 0 /\ mWritten = <<>> /\ mStore = <<>>
    /\ mSavedCount = -1 /\ tOps = <<>> /\ tTmp = <<>>

\* index.py:27 and 195: a fresh accumulator, empty tables, the first day
MetricsInit ==
    /\ mPc = "feeding" /\ mAcc = EmptyAccumulator /\ mFed = <<>> /\ mAdds = 0
    /\ mMetrics = RecEmpty /\ mDate = 1 /\ mWritten = <<>>
    /\ mStore = [t \in METRICS_TABLES |-> {}]
    /\ mSavedCount = -1 /\ tOps = <<>> /\ tTmp = <<>>

\* index.py:61 and 122: one add_resource call
MetricsAdd(item) ==
    /\ mPc = "feeding"
    /\ UNCHANGED mOthers
    /\ mAdds < MaxAdds
    /\ mAcc' = AddResource(mAcc, item)
    /\ mFed' = Append(mFed, item)
    /\ mAdds' = mAdds + 1
    /\ UNCHANGED <<mPc, mMetrics, mDate, mWritten, mStore, mSavedCount, tOps, tTmp>>

\* index.py:307
MetricsGet ==
    /\ mPc = "feeding"
    /\ UNCHANGED mOthers
    /\ mMetrics' = GetMetrics(mAcc)
    /\ mPc' = "got"
    /\ UNCHANGED <<mAcc, mFed, mAdds, mDate, mWritten, mStore, mSavedCount, tOps, tTmp>>

\* index.py:329: the records are built and written to each metrics table
MetricsSave ==
    /\ mPc = "got"
    /\ UNCHANGED mOthers
    /\ LET items == ItemsToSave(mMetrics, Dates[mDate])
       IN  /\ mWritten' = items
           /\ \E outcome \in [METRICS_TABLES -> {"all", "none", "raises"}] :
                /\ mStore' = [t \in METRICS_TABLES |->
                                IF outcome[t] = "all" THEN Upsert(mStore[t], items)
                                ELSE mStore[t]]
                /\ mSavedCount' = TotalSaved(outcome, Len(items), Cardinality(METRICS_TABLES))
    /\ mPc' = "saved"
    /\ UNCHANGED <<mAcc, mFed, mAdds, mMetrics, mDate, tOps, tTmp>>

\* index.py:187-195: the next run, the same day or a later one, resets the
\* accumulator; the previous run's locals are gone
MetricsReset ==
    /\ mPc = "saved"
    /\ UNCHANGED mOthers
    /\ mAcc' = EmptyAccumulator
    /\ mFed' = <<>>
    /\ \E day \in mDate..Len(Dates) : mDate' = day
    /\ mMetrics' = RecEmpty /\ mWritten' = <<>> /\ mSavedCount' = -1
    /\ mPc' = "feeding"
    /\ UNCHANGED <<mAdds, mStore, tOps, tTmp>>

MetricsNext ==
    \/ \E item \in MetricItems : MetricsAdd(item)
    \/ MetricsGet
    \/ MetricsSave
    \/ MetricsReset

----------------------------------------------------------------------------
(* add_resource called from several worker threads (index.py:61 and 122):
   the accumulator has no lock, so each `+= 1` is a load and a later store
   and another thread may run in between *)

Threads == 1..MaxThreads

MetricsRaceInit ==
    /\ mPc = "racing" /\ mAcc = EmptyAccumulator /\ mFed = <<>> /\ mAdds = 0
    /\ mMetrics = RecEmpty /\ mDate = 1 /\ mWritten = <<>>
    /\ mStore = [t \in METRICS_TABLES |-> {}]
    /\ mSavedCount = -1
    /\ tOps = [t \in Threads |-> <<>>]
    /\ tTmp = [t \in Threads |-> -1]

\* lines 134-137: a thread enters add_resource
ThreadCall(t, item) ==
    /\ mPc = "racing"
    /\ UNCHANGED mOthers
    /\ tOps[t] = <<>>
    /\ mAdds < MaxAdds
    /\ tOps' = [tOps EXCEPT ![t] = Updates(item)]
    /\ mFed' = Append(mFed, item)
    /\ mAdds' = mAdds + 1
    /\ UNCHANGED <<mPc, mAcc, mMetrics, mDate, mWritten, mStore, mSavedCount, tTmp>>

\* the read half of `counter += 1`
ThreadLoad(t) ==
    /\ mPc = "racing"
    /\ UNCHANGED mOthers
    /\ tOps[t] # <<>>
    /\ Head(tOps[t]).op = "inc"
    /\ tTmp[t] = -1
    /\ mAcc' = Load(mAcc, Head(tOps[t]).key)
    /\ tTmp' = [tTmp EXCEPT ![t] = Count(mAcc, Head(tOps[t]).key)]
    /\ UNCHANGED <<mPc, mFed, mAdds, mMetrics, mDate, mWritten, mStore, mSavedCount, tOps>>

\* the write half of `counter += 1`
ThreadStore(t) ==
    /\ mPc = "racing"
    /\ UNCHANGED mOthers
    /\ tOps[t] # <<>>
    /\ tTmp[t] # -1
    /\ mAcc' = Store(mAcc, Head(tOps[t]).key, tTmp[t] + 1)
    /\ tTmp' = [tTmp EXCEPT ![t] = -1]
    /\ tOps' = [tOps EXCEPT ![t] = Tail(@)]
    /\ UNCHANGED <<mPc, mFed, mAdds, mMetrics, mDate, mWritten, mStore, mSavedCount>>

\* line 148: the name assignment is one dictionary store
ThreadSetName(t) ==
    /\ mPc = "racing"
    /\ UNCHANGED mOthers
    /\ tOps[t] # <<>>
    /\ Head(tOps[t]).op = "name"
    /\ mAcc' = Apply(mAcc, Head(tOps[t]))
    /\ tOps' = [tOps EXCEPT ![t] = Tail(@)]
    /\ UNCHANGED <<mPc, mFed, mAdds, mMetrics, mDate, mWritten, mStore, mSavedCount, tTmp>>

\* index.py:307: get_metrics once every add_resource call has returned
MetricsRaceGet ==
    /\ mPc = "racing"
    /\ UNCHANGED mOthers
    /\ \A t \in Threads : tOps[t] = <<>>
    /\ mMetrics' = GetMetrics(mAcc)
    /\ mPc' = "got"
    /\ UNCHANGED <<mAcc, mFed, mAdds, mDate, mWritten, mStore, mSavedCount, tOps, tTmp>>

MetricsRaceNext ==
    \/ \E t \in Threads, item \in HandledItems : ThreadCall(t, item)
    \/ \E t \in Threads : ThreadLoad(t)
    \/ \E t \in Threads : ThreadStore(t)
    \/ \E t \in Threads : ThreadSetName(t)
    \/ MetricsRaceGet

----------------------------------------------------------------------------
(* ResourceCollector: add_item and save (collectors/base.py), with the
   resource tables the records end up in *)

\* index.py:245: resource_tables, production first
RESOURCE_TABLES == <<1, 2>>

\* the (account id, account name, region) a collector is constructed with
\* (base.py:305-312): regional collectors and the storage collector
CollectorIdentities ==
    {<<"111", "alpha", "us-east-1">>, <<"111", "alpha-renamed", "global">>,
     <<"222", "beta", "us-east-1">>}

\* the resource types and native ids handed to add_item: a volume is added
\* by the regional collector of its region (ec2_collector.py:587) and by the
\* storage collector (storage_collector.py:396)
ItemTypes == {"EBSVolume"}
NativeIds == {"vol-1"}

\* the properties handed to add_item: a value may be None, and the storage
\* collector's carry the region of the resource (storage_collector.py:381)
ItemProperties ==
    {[state |-> "in-use", size |-> "None"],
     [state |-> "available", region |-> "us-east-1"]}

\* a region that is always the collector's own
ItemRegion_Own(properties, region) == region

\* base.py:331: properties.get('region', self.region)
ItemRegion(properties, region) == Get(properties, "region", region)

\* base.py:335: the f-string of the id
DeriveId(account_id, item_region, resource_type, resource_id) ==
    account_id \o "-" \o item_region \o "-" \o resource_type \o "-" \o resource_id

\* base.py:343: {k: v for k, v in properties.items() if v is not None}
WithoutNone(properties) ==
    [k \in {key \in DOMAIN properties : properties[key] # "None"} |-> properties[k]]

\* base.py:328-343: the record add_item builds; update() lets a property
\* replace an envelope field of the same name
NewItem(account_id, account_name, region, now, resource_type, resource_id, properties) ==
    LET item_region == ItemRegion(properties, region)
    IN  WithoutNone(properties)
        @@ [accountId |-> account_id,
            id |-> DeriveId(account_id, item_region, resource_type, resource_id),
            accountName |-> account_name,
            resourceType |-> resource_type,
            region |-> item_region,
            createdAt |-> now,
            updatedAt |-> now]

\* a PutRequest replaces the record stored under the same id
Put(held, item) == {r \in held : r.id # item.id} \cup {item}

RECURSIVE PutAll(_, _)
PutAll(held, items) ==
    IF items = <<>> THEN held ELSE PutAll(Put(held, Head(items)), Tail(items))

\* what a call of the batch writer does with a batch: every table takes it,
\* only the primary or only the secondary table does, none does, or the
\* writer raises before any table has taken it
WriteOutcomes == {"all", "primary", "secondary", "none", "raises"}

Accepts(outcome, table) ==
    \/ outcome = "all"
    \/ outcome = "primary" /\ table = 1
    \/ outcome = "secondary" /\ table = 2

\* base.py:263-266: the writer returns the count of the primary table
WriterCount(outcome, items) == IF Accepts(outcome, 1) THEN Len(items) ELSE 0

\* a buffer that is emptied only when the write went through
BufferAfterHandOver_KeptOnFailure(items, outcome) ==
    IF outcome = "all" THEN <<>> ELSE items

\* base.py:359-360: items_to_save = self.items; self.items = [], before the
\* writer is called
BufferAfterHandOver(items, outcome) == <<>>

BufferIdle ==
    /\ bPc = "idle" /\ bSelf = <<>> /\ bTables = <<>> /\ bItems = <<>>
    /\ bStore = <<>> /\ bLast = <<>> /\ bHanded = <<>> /\ bRet = -1
    /\ bAdds = 0 /\ bCalls = {}

\* base.py:305-312: a collector with an empty buffer; the tables are empty
\* before the first run
BufferInit ==
    /\ bPc = "open"
    /\ bSelf \in CollectorIdentities
    /\ bTables = RESOURCE_TABLES
    /\ bItems = <<>>
    /\ bStore = [t \in Range(RESOURCE_TABLES) |-> {}]
    /\ bLast = [t \in Range(RESOURCE_TABLES) |-> <<>>]
    /\ bHanded = <<>> /\ bRet = -1 /\ bAdds = 0 /\ bCalls = {}

\* base.py:305-312: another collector is constructed, in the same run or in
\* a later one; the tables keep what they hold
CollectorNew(identity) ==
    /\ bPc \in {"open", "saved"}
    /\ UNCHANGED bOthers
    /\ identity # bSelf
    /\ bSelf' = identity
    /\ bItems' = <<>>
    /\ bPc' = "open"
    /\ bRet' = -1
    /\ UNCHANGED <<bTables, bStore, bLast, bHanded, bAdds, bCalls>>

\* base.py:328-344: add_item
AddItem(resource_type, resource_id, properties) ==
    /\ bPc \in {"open", "saved"}
    /\ UNCHANGED bOthers
    /\ bAdds < MaxAddItems
    /\ LET item == NewItem(bSelf[1], bSelf[2], bSelf[3], bAdds + 1,
                           resource_type, resource_id, properties)
       IN  /\ bItems' = Append(bItems, item)
           /\ bCalls' = bCalls \cup
                {[account |-> item.accountId, region |-> item.region,
                  type |-> resource_type, native |-> resource_id, id |-> item.id]}
    /\ bAdds' = bAdds + 1
    /\ bPc' = "open"
    /\ UNCHANGED <<bSelf, bTables, bStore, bLast, bHanded, bRet>>

\* the latest record each id was written with
Latest(last, items) ==
    LET ids == {items[i].id : i \in 1..Len(items)}
        final(id) == items[CHOOSE i \in 1..Len(items) :
                            /\ items[i].id = id
                            /\ \A j \in (i + 1)..Len(items) : items[j].id # id]
    IN  [id \in ids |-> final(id)] @@ last

\* base.py:350-370: save()
Save ==
    /\ bPc \in {"open", "saved"}
    /\ UNCHANGED bOthers
    /\ IF bItems = <<>> \/ bTables = <<>>
       THEN /\ bRet' = 0
            /\ UNCHANGED <<bItems, bStore, bLast, bHanded>>
       ELSE \E outcome \in WriteOutcomes :
            /\ bItems' = BufferAfterHandOver(bItems, outcome)
            /\ bHanded' = Append(bHanded, [items |-> bItems, outcome |-> outcome])
            /\ bStore' = [t \in DOMAIN bStore |->
                            IF Accepts(outcome, t) THEN PutAll(bStore[t], bItems)
                            ELSE bStore[t]]
            /\ bLast' = [t \in DOMAIN bLast |->
                            IF Accepts(outcome, t) THEN Latest(bLast[t], bItems)
                            ELSE bLast[t]]
            /\ bRet' = IF outcome = "raises" THEN 0 ELSE WriterCount(outcome, bItems)
    /\ bPc' = "saved"
    /\ UNCHANGED <<bSelf, bTables, bAdds, bCalls>>

BufferNext ==
    \/ \E identity \in CollectorIdentities : CollectorNew(identity)
    \/ \E resource_type \in ItemTypes, resource_id \in NativeIds,
          properties \in ItemProperties :
            AddItem(resource_type, resource_id, properties)
    \/ Save

----------------------------------------------------------------------------
(* The sleeps of a retry loop: collectors/base.py:204-253, cleaner.py:85-121 *)

\* base.py:206 and cleaner.py:87: backoff_base, in milliseconds
WRITE_BACKOFF_MS == 100
DELETE_BACKOFF_MS == 300

RetryLoops ==
    [write |-> [backoff_base |-> WRITE_BACKOFF_MS, max_retries |-> WRITE_MAX_RETRIES],
     delete |-> [backoff_base |-> DELETE_BACKOFF_MS, max_retries |-> DELETE_MAX_RETRIES]]

RECURSIVE Pow2(_)
Pow2(n) == IF n = 0 THEN 1 ELSE 2 * Pow2(n - 1)

\* random.random() * backoff_base lies in [0, backoff_base): its least value,
\* a middle one and the greatest one that is a whole millisecond
Jitters(backoff_base) == {0, backoff_base \div 2, backoff_base - 1}

\* a sleep that does not grow with the attempt
BackoffDelay_Flat(backoff_base, retries, jitter) == backoff_base + jitter

\* base.py:226, 242, 252 and cleaner.py:108, 118: sleep_time
BackoffDelay(backoff_base, retries, jitter) == backoff_base * Pow2(retries) + jitter

BackoffIdle == kPc = "idle" /\ kLoop = "" /\ kRetries = 0 /\ kDelays = <<>>

\* base.py:204-206, cleaner.py:85-87
BackoffInit ==
    /\ kPc = "looping" /\ kLoop \in DOMAIN RetryLoops /\ kRetries = 0 /\ kDelays = <<>>

\* the attempt left items unprocessed or raised a retryable error:
\* retries += 1, then the sleep
BackoffSleep(jitter) ==
    /\ kPc = "looping"
    /\ UNCHANGED kOthers
    /\ kRetries < RetryLoops[kLoop].max_retries
    /\ jitter \in Jitters(RetryLoops[kLoop].backoff_base)
    /\ kRetries' = kRetries + 1
    /\ kDelays' = Append(kDelays,
                         BackoffDelay(RetryLoops[kLoop].backoff_base, kRetries + 1, jitter))
    /\ UNCHANGED <<kPc, kLoop>>

\* the attempt succeeded or failed for good, or the while test ended the loop
BackoffLeave ==
    /\ kPc = "looping"
    /\ UNCHANGED kOthers
    /\ kPc' = "left"
    /\ UNCHANGED <<kLoop, kRetries, kDelays>>

BackoffNext ==
    \/ \E jitter \in Jitters(WRITE_BACKOFF_MS) \cup Jitters(DELETE_BACKOFF_MS) :
            BackoffSleep(jitter)
    \/ BackoffLeave

----------------------------------------------------------------------------
(* clear_dynamodb_table: cleaner.py:146-266 *)

\* the inventory records of the table; an id is kept as its parts
InventoryRecords ==
    { [id |-> <<"111", "us-east-1", "EBSVolume-vol-1">>, resourceType |-> "EBSVolume"],
      [id |-> <<"222", "sa-east-1", "EC2Instance-i-1">>, resourceType |-> "EC2Instance"] }

\* the rollups whose records the table may hold
ClearFeeds ==
    { <<>>,
      <<Envelope("EC2Instance", "111", "us-east-1") @@ [instanceState |-> "running"],
        Envelope("RDSInstance", "111", "sa-east-1") @@ [status |-> "available"]>> }

\* metrics_calculator.py:477-602: what save_metrics_to_dynamodb wrote on a day
MetricRecordsOf(feed, day) ==
    Range(ItemsToSave(GetMetrics(FeedAll(EmptyAccumulator, feed)), Dates[day]))

\* cleaner.py:165-173: the scan projects the key attributes, and the sort key
\* is None (line 33)
Scanned(record) == [id |-> record.id]

\* cleaner.py:199: item.get("isMetric", {}).get("BOOL") is True
HasMetricFlag(item) == Get(item, "isMetric", FALSE) = TRUE

\* cleaner.py:202-204: the id starts with "METRICS-EC2-20" or "METRICS-GLOBAL-20";
\* the dates of the model are of this century, "CURRENT" does not start with "20"
HasMetricPrefix(item) ==
    /\ item.id[1] = "METRICS"
    /\ item.id[2] \in {"EC2", "GLOBAL"}
    /\ item.id[3] \in Range(Dates)

\* cleaner.py:199-206
Preserved(item) == HasMetricFlag(item) \/ HasMetricPrefix(item)

ClearIdle ==
    /\ xPc = "idle" /\ xTable = {} /\ xBefore = {} /\ xKeys = {} /\ xRequested = {}
    /\ xDeleted = 0 /\ xStatus = ""

\* the table when the call begins: the metric records of a run, maybe the
\* dated ones of the day before, and any of the inventory records; or what an
\* earlier clearing left of them
ClearInit ==
    /\ xPc = "scan"
    /\ \E feed \in ClearFeeds, day \in 1..Len(Dates), inventory \in SUBSET InventoryRecords,
          earlier \in BOOLEAN, cleared \in BOOLEAN :
            LET held == MetricRecordsOf(feed, day) \cup inventory
                        \cup IF earlier /\ day > 1
                             THEN {r \in MetricRecordsOf(feed, day - 1) :
                                        r.id[3] # "CURRENT"}
                             ELSE {}
            IN  xTable = IF cleared THEN {r \in held : Preserved(Scanned(r))} ELSE held
    /\ xBefore = xTable
    /\ xKeys = {} /\ xRequested = {} /\ xDeleted = 0 /\ xStatus = ""

\* cleaner.py:180-226: the scan collects the keys to delete; none: 'Success', 0
ClearScan ==
    /\ xPc = "scan"
    /\ UNCHANGED xOthers
    /\ xKeys' = {Scanned(r).id : r \in {t \in xTable : ~Preserved(Scanned(t))}}
    /\ IF xKeys' = {}
       THEN xPc' = "returned" /\ xStatus' = "Success"
       ELSE xPc' = "delete" /\ xStatus' = xStatus
    /\ UNCHANGED <<xTable, xBefore, xRequested, xDeleted>>

\* cleaner.py:232-266: the batch (fewer than MAX_BATCH_SIZE keys make one) is
\* handed to batch_delete_items, which deletes some of its keys and returns
\* the count, or raises
ClearDelete ==
    /\ xPc = "delete"
    /\ UNCHANGED xOthers
    /\ \E gone \in SUBSET xKeys, raised \in BOOLEAN :
        /\ ~raised => gone = xKeys
        /\ xTable' = {r \in xTable : r.id \notin gone}
        /\ xDeleted' = IF raised THEN xDeleted ELSE xDeleted + Cardinality(gone)
        /\ xStatus' = IF raised THEN "Error" ELSE "Success"
    /\ xRequested' = xRequested \cup xKeys
    /\ xKeys' = {}
    /\ xPc' = "returned"
    /\ UNCHANGED xBefore

ClearNext ==
    \/ ClearScan
    \/ ClearDelete

----------------------------------------------------------------------------
(* Specifications *)

\* one call of batch_write_to_dynamodb
InitWrite ==
    /\ WriteInit /\ DeleteIdle /\ RegionIdle /\ AccountIdle /\ DriverIdle /\ MetricsIdle
    /\ BufferIdle /\ BackoffIdle /\ ClearIdle

SpecWrite == InitWrite /\ [][WriteNext]_vars

\* one call of batch_delete_items
InitDelete ==
    /\ WriteIdle /\ DeleteInit /\ RegionIdle /\ AccountIdle /\ DriverIdle /\ MetricsIdle
    /\ BufferIdle /\ BackoffIdle /\ ClearIdle

SpecDelete == InitDelete /\ [][DeleteNext]_vars

\* one call of either retry loop
InitRetry == InitWrite \/ InitDelete

NextRetry == WriteNext \/ DeleteNext

SpecRetry == InitRetry /\ [][NextRetry]_vars

\* one call of process_region
InitRegion ==
    /\ WriteIdle /\ DeleteIdle /\ RegionInit /\ AccountIdle /\ DriverIdle /\ MetricsIdle
    /\ BufferIdle /\ BackoffIdle /\ ClearIdle

SpecRegion == InitRegion /\ [][RegionNext]_vars

\* one call of process_account
InitAccount ==
    /\ WriteIdle /\ DeleteIdle /\ RegionIdle /\ AccountsInit(1, "assume") /\ DriverIdle
    /\ MetricsIdle
    /\ BufferIdle /\ BackoffIdle /\ ClearIdle

SpecAccount == InitAccount /\ [][AccountNext]_vars

\* one invocation of lambda_handler over 0..MaxAccounts accounts
InitDriver ==
    /\ WriteIdle /\ DeleteIdle /\ RegionIdle /\ DriverInit /\ MetricsIdle /\ BufferIdle
    /\ \E n \in 0..MaxAccounts : AccountsInit(n, "none")
    /\ BackoffIdle /\ ClearIdle

SpecDriver == InitDriver /\ [][DriverNext]_vars

\* lambda_handler over account workers that may raise
DriverRaiseNext ==
    \/ DriverNext
    \/ \E a \in Accounts : AccountRaises(a)

SpecDriverRaise == InitDriver /\ [][DriverRaiseNext]_vars

\* runs of the accumulator fed by one thread, each ended by a save
InitMetrics ==
    /\ WriteIdle /\ DeleteIdle /\ RegionIdle /\ AccountIdle /\ DriverIdle /\ MetricsInit
    /\ BufferIdle /\ BackoffIdle /\ ClearIdle

SpecMetrics == InitMetrics /\ [][MetricsNext]_vars

\* one run's add_resource calls made by concurrent threads
InitMetricsRace ==
    /\ WriteIdle /\ DeleteIdle /\ RegionIdle /\ AccountIdle /\ DriverIdle /\ BufferIdle
    /\ MetricsRaceInit
    /\ BackoffIdle /\ ClearIdle

SpecMetricsRace == InitMetricsRace /\ [][MetricsRaceNext]_vars

\* collectors that add records and save them to the resource tables
InitBuffer ==
    /\ WriteIdle /\ DeleteIdle /\ RegionIdle /\ AccountIdle /\ DriverIdle /\ MetricsIdle
    /\ BufferInit
    /\ BackoffIdle /\ ClearIdle

SpecBuffer == InitBuffer /\ [][BufferNext]_vars

\* the sleeps of one run of either retry loop
InitBackoff ==
    /\ WriteIdle /\ DeleteIdle /\ RegionIdle /\ AccountIdle /\ DriverIdle /\ MetricsIdle
    /\ BufferIdle /\ BackoffInit /\ ClearIdle

SpecBackoff == InitBackoff /\ [][BackoffNext]_vars

\* one call of clear_dynamodb_table
InitClear ==
    /\ WriteIdle /\ DeleteIdle /\ RegionIdle /\ AccountIdle /\ DriverIdle /\ MetricsIdle
    /\ BufferIdle /\ BackoffIdle /\ ClearInit

SpecClear == InitClear /\ [][ClearNext]_vars

----------------------------------------------------------------------------
(* Claims about batch_write_to_dynamodb and batch_delete_items *)

ValidTables == {t \in 1..Len(wTables) : wTables[t]}

\* input positions first + 1 .. last, in order
Positions(first, last) == [i \in 1..(last - first) |-> first + i]

\* the chunks of N records: chunk k (from 0) holds positions 25k+1 .. 25k+25
ChunksOf(n) ==
    [k \in 1..CeilDiv(n, 25) |-> Positions(25 * (k - 1), Min(25 * k, n))]

\* the first-attempt requests a table must see: one per chunk that holds a
\* record left after the two filters
RECURSIVE ExpectedRequests(_, _)
ExpectedRequests(items, start) ==
    IF start >= Len(items) THEN <<>>
    ELSE (IF PutRequests(items, start) = <<>> THEN <<>>
          ELSE <<PutRequests(items, start)>>)
         \o ExpectedRequests(items, start + 25)

RECURSIVE SumLen(_)
SumLen(seqs) == IF seqs = <<>> THEN 0 ELSE Len(Head(seqs)) + SumLen(Tail(seqs))

WriteReturned == wPc = "done" /\ wItems # <<>> /\ wTables # <<>>

\* C1 as stated: for any N >= 1 records that are non-empty (truthy), every
\* valid store sees exactly ceil(N/25) first-attempt calls of at most 25 items,
\* chunk k carrying records 25k .. 25k+24.
C1_ChunkingOfNonEmptyRecords ==
    (WriteReturned /\ \A i \in 1..Len(wItems) : Truthy(wItems[i]))
        => \A t \in ValidTables : wFirst[t] = ChunksOf(Len(wItems))

\* C1 amended: for any N >= 1 records that are still non-empty after
\* sanitisation, and whatever the stores answered, every valid store sees
\* exactly ceil(N/25) first-attempt calls, each of at most 25 items, chunk k
\* carrying (the sanitised form of) records 25k .. 25k+24.
C1_ChunkingOfSubmittableRecords ==
    /\ Len(wRequest) <= 25
    /\ (WriteReturned /\ \A i \in 1..Len(wItems) : Submittable(wItems[i]))
        => \A t \in ValidTables :
              /\ Len(wFirst[t]) = CeilDiv(Len(wItems), 25)
              /\ wFirst[t] = ChunksOf(Len(wItems))

C1_Witness ==
    /\ wPc = "done"
    /\ wItems = InputItems(2 * 25 + 1, "nan")
    /\ wTables = <<TRUE, TRUE>>
    /\ wSawFatal
    /\ wLeft[2] > 0
    /\ Len(wFirst[1]) = 3 /\ Len(wFirst[2]) = 3

\* C2: when every answer is "all items unprocessed", each chunk gets exactly 5
\* calls and the write returns 0, which is less than the number requested; in
\* every case a chunk gets at most 5 calls to one store.
C2_WriteRetryTermination ==
    /\ wCalls <= 5
    /\ (wPc = "chunkEnd" /\ wOnlyUnproc) => (wCalls = 5 /\ wChunkAcc = {})
    /\ (WriteReturned /\ wOnlyUnproc)
        => /\ wRet = 0
           /\ wRet < Len(wItems)
           /\ \A t \in ValidTables : wFirst[t] = ExpectedRequests(wItems, 0)

C2_Witness ==
    /\ wPc = "done"
    /\ wOnlyUnproc
    /\ Len(wItems) = 2 * 25 + 1
    /\ wTables = <<TRUE, TRUE>>
    /\ wLeft[1] = 2 * 25 + 1 /\ wLeft[2] = 2 * 25 + 1
    /\ wRet = 0

\* C3: when every answer is "all requests unprocessed", batch_delete_items
\* raises (RuntimeError) and returns no count, after exactly 7 calls.
C3_DeleteRetryExhaustionRaises ==
    /\ dOnlyUnproc => dCalls <= 7
    /\ (dOnlyUnproc /\ dInput # <<>> /\ dPc \in {"returned", "raised"})
        => /\ dPc = "raised"
           /\ dRaised = "RuntimeError"
           /\ dRet = -1
           /\ dCalls = 7

C3_Witness ==
    /\ dPc = "raised"
    /\ dOnlyUnproc
    /\ Len(dInput) = 25
    /\ dCalls = 7
    /\ dGone = {}

\* C4: on both paths a retry carries exactly what the preceding answer left
\* unprocessed (after a retried exception, the same request again), never an
\* item the store has accepted, and never more items than the call before.
C4_RetryOnlyUnprocessed ==
    /\ (wPc = "call" /\ wCalls >= 1)
        => /\ wPrevResp.kind = "unprocessed" => wRequest = wPrevResp.unproc
           /\ wPrevResp.kind \in {"retryable", "unexpected"} => wRequest = wPrevReq
           /\ wPrevResp.kind \in {"unprocessed", "retryable", "unexpected"}
           /\ Range(wRequest) \cap wChunkAcc = {}
           /\ Len(wRequest) <= Len(wPrevReq)
    /\ (dPc = "call" /\ dCalls >= 1)
        => /\ dPrevResp.kind = "unprocessed" => dRequest = dPrevResp.unproc
           /\ dPrevResp.kind = "retryable" => dRequest = dPrevReq
           /\ dPrevResp.kind \in {"unprocessed", "retryable"}
           /\ Range(dRequest) \cap dGone = {}
           /\ Len(dRequest) <= Len(dPrevReq)

C4_Witness ==
    /\ wPc = "call"
    /\ wCalls = 2
    /\ wPrevResp.kind = "unprocessed"
    /\ Len(wPrevReq) = 25
    /\ Len(wRequest) = 1
    /\ Cardinality(wChunkAcc) = 24

\* C5: a non-retryable store error ends the chunk at once: no further call
\* and no sleep for it; the later chunks and the later stores are still
\* attempted.
C5_FatalErrorAbortsChunkOnly ==
    /\ wPrevResp.kind = "fatal" => (wPc = "chunkEnd" /\ wSleeps = wCalls - 1)
    /\ (WriteReturned /\ wSawFatal)
        => \A t \in ValidTables : wFirst[t] = ExpectedRequests(wItems, 0)

C5_Witness ==
    /\ wPc = "done"
    /\ wSawFatal
    /\ Len(wItems) = 2 * 25 + 1
    /\ wTables = <<TRUE, TRUE>>
    /\ wAccepted[1] = 0
    /\ wAccepted[2] = 2 * 25 + 1

\* C6: every chunk goes to every store whatever happened at the others, and
\* the return value is the number of items the first store accepted: the
\* input count minus the records filtered out as empty and minus those still
\* unprocessed or failed at that store.
C6_ReturnCountsPrimaryStore ==
    WriteReturned
        => /\ \A t \in ValidTables : wFirst[t] = ExpectedRequests(wItems, 0)
           /\ wRet = wAccepted[1]
           /\ wTables[1] =>
                wRet = SumLen(ExpectedRequests(wItems, 0)) - wLeft[1]

C6_Witness ==
    /\ wPc = "done"
    /\ wTables = <<TRUE, TRUE>>
    /\ Len(wItems) = 2 * 25 + 1
    /\ wRet = 2 * 25
    /\ wLeft[1] = 1
    /\ wAccepted[2] = 0

\* C7: in process_region a collector whose collect() or save() raises is
\* isolated: every collector's task is over when the region returns, each
\* collector that did not raise ran collect() once and then save() once,
\* process_region itself never raises, and the total it returns is the sum of
\* the save() counts of the collectors that did not raise.
C7_CollectorFailureIsolated ==
    /\ rPc # "raised"
    /\ rPc = "returned"
        => /\ \A c \in Collectors : cPc[c] \in {"done", "failed"}
           /\ \A c \in Collectors :
                cPc[c] = "done" => cCollects[c] = 1 /\ cSaves[c] = 1 /\ cSaved[c] >= 0
           /\ rRet = SumOver(cSaved, {c \in Collectors : cPc[c] = "done"})

C7_Witness ==
    /\ rPc = "returned"
    /\ cPc = <<"failed", "done", "failed">>
    /\ cCollects = <<1, 1, 1>>
    /\ cSaves = <<0, 1, 1>>
    /\ cSaved[2] = 1
    /\ rRet = 1

\* C8: an account whose role assumption fails, with either kind of error,
\* has process_account return 0 with no region discovery, no storage
\* collection or save and no region task; when lambda_handler returns, every
\* submitted account has returned, and each one whose role was assumed has
\* gone through discovery and storage collection.
C8_AssumeFailureSkipsAccount ==
    /\ \A a \in Accounts :
        aAssume[a] \in {"ClientError", "Exception"}
            => /\ aPc[a] = "returned"
               /\ aRet[a] = 0
               /\ aDiscoveries[a] = 0
               /\ gCollects[a] = 0
               /\ gSaves[a] = 0
               /\ \A r \in Regions : rwPc[a][r] = "none"
    /\ hPc = "returned" /\ hMetricsSaved >= 0
        => \A a \in Accounts :
            /\ aPc[a] = "returned"
            /\ aAssume[a] = "ok" => aDiscoveries[a] = 1 /\ gCollects[a] = 1

C8_Witness ==
    /\ hPc = "returned"
    /\ Accounts = {1, 2}
    /\ aAssume = <<"Exception", "ok">>
    /\ aRet = <<0, 2>>
    /\ aRegions[2] # <<>>
    /\ hProcessed = 2
    /\ hTotal = 2

\* what the storage collector's save() contributed
GlobalSaved(a) == IF gSaved[a] >= 0 THEN gSaved[a] ELSE 0

CompletedRegions(a) == {r \in Range(aRegions[a]) : rwPc[a][r] = "done"}

\* C9: process_account never raises; when it returns after a successful
\* role assumption every region task is over, a region that raised is
\* recorded as 'Error', a region that returned is recorded with its count,
\* and the return value is the storage collector's saved count plus the
\* counts of the regions that returned.
C9_AccountTotal ==
    \A a \in Accounts :
        /\ aPc[a] # "raised"
        /\ aPc[a] = "returned" /\ aAssume[a] = "ok"
            => /\ \A r \in Range(aRegions[a]) :
                    /\ rwPc[a][r] \in {"done", "raised"}
                    /\ rwPc[a][r] = "raised" => aResults[a][r] = ErrorResult
                    /\ rwPc[a][r] = "done" => aResults[a][r] = CountResult(rwRet[a][r])
               /\ aRet[a] = GlobalSaved(a) + SumOver(rwRet[a], CompletedRegions(a))

C9_Witness ==
    /\ aPc = <<"returned">>
    /\ aRegions[1] = <<1, 2>>
    /\ rwPc[1][1] = "raised"
    /\ rwPc[1][2] = "done"
    /\ rwRet[1][2] = 1
    /\ gSaved[1] = 1
    /\ aRet[1] = 2

RegionTaskStarted(a) == \E r \in Regions : rwPc[a][r] \in {"running", "done", "raised"}

\* C10: the storage collector is used at most once per account and exactly
\* once when the role was assumed and the account got as far as the fan-out;
\* it is bound to 'global'; and once any region task of the account has
\* started its collect() is over and so is its save(), which ran exactly when
\* collect() returned items.
C10_GlobalBeforeFanOut ==
    \A a \in Accounts :
        /\ gCollects[a] <= 1 /\ gSaves[a] <= 1
        /\ gCollects[a] = 1 => gRegion[a] = STORAGE_REGION
        /\ aAssume[a] = "ok" /\ aPc[a] \in {"submit", "gather", "returned"}
            => gCollects[a] = 1
        /\ RegionTaskStarted(a)
            => /\ aAssume[a] = "ok"
               /\ aPc[a] \in {"gather", "returned"}
               /\ gCollects[a] = 1
               /\ gRegion[a] = STORAGE_REGION
               /\ gSaves[a] = (IF gItems[a] > 0 THEN 1 ELSE 0)

C10_Witness ==
    /\ aPc = <<"gather">>
    /\ rwPc[1][1] = "running"
    /\ gCollects[1] = 1
    /\ gSaves[1] = 1
    /\ gSaved[1] = 1

\* C11: once the deadline check has seen less than 15000 ms, the totals,
\* the processed count, the error list and the set of consumed results never
\* change again, and the summary returned after such a stop is the full
\* summary with accountsProcessedCount < totalAccountsInOrg.
C11_DeadlineStopsConsumption ==
    /\ [][hStopped => /\ hStopped'
                      /\ hConsumed' = hConsumed
                      /\ hTotal' = hTotal
                      /\ hProcessed' = hProcessed
                      /\ hErrors' = hErrors]_vars
    /\ [](hPc = "returned" /\ hStopped
            => /\ hSummary.statusCode = 200
               /\ hSummary.totalResourcesSaved = hTotal
               /\ hSummary.accountsProcessedCount = hProcessed
               /\ hSummary.accountsWithCriticalErrors = hErrors
               /\ hSummary.totalAccountsInOrg = Cardinality(Accounts)
               /\ hSummary.accountsProcessedCount < hSummary.totalAccountsInOrg
               /\ hProcessed = Cardinality(hConsumed))

C11_Witness ==
    /\ hPc = "returned"
    /\ hStopped
    /\ Accounts = {1, 2}
    /\ hConsumed = {2}
    /\ hSummary.accountsProcessedCount = 1
    /\ hSummary.totalAccountsInOrg = 2
    /\ aRet = <<1, 1>>
    /\ hSummary.totalResourcesSaved = 1

\* C12: once the deadline check has stopped the result loop, the handler can
\* leave the account pool and go on to the metrics whatever the account
\* tasks are doing: it does not wait for a running or queued account.
C12_ReturnsWithoutWaiting ==
    hPc = "consume" /\ hStopped => ENABLED DriverJoin

\* the records of mFed that add_resource counts, and those matching a field
Counted == {i \in 1..Len(mFed) : Get(mFed[i], "resourceType", "") # ""}
Matching(field, value) == {i \in Counted : Get(mFed[i], field, "") = value}

\* C13: whatever the interleaving of concurrent add_resource calls, once all
\* of them have returned get_metrics() reports one resource per counted call
\* and every per-type, per-account and per-region counter equals the number
\* of matching records.
C13_NoLostUpdate ==
    mPc = "got"
        => /\ mMetrics.global.totalResources = Cardinality(Counted)
           /\ \A i \in Counted :
                /\ Count(mAcc, Entry("resource_counts", mFed[i].resourceType))
                     = Cardinality(Matching("resourceType", mFed[i].resourceType))
                /\ Count(mAcc, Entry("account_counts", mFed[i].accountId))
                     = Cardinality(Matching("accountId", mFed[i].accountId))
                /\ mFed[i].region # "global"
                     => Count(mAcc, Entry("region_counts", mFed[i].region))
                          = Cardinality(Matching("region", mFed[i].region))

Bijections(n) == {p \in [1..n -> 1..n] : \A i, j \in 1..n : p[i] = p[j] => i = j}

\* the orderings of the records of a sequence
Orderings(items) ==
    {[i \in 1..Len(items) |-> items[p[i]]] : p \in Bijections(Len(items))}

\* C14: get_metrics() gives the same rollup, the two top-10 lists and the
\* account names included, for every ordering of the records that were fed.
C14_OrderIndependent ==
    mPc = "got"
        => \A items \in Orderings(mFed) :
            GetMetrics(FeedAll(EmptyAccumulator, items)) = mMetrics

\* the percentages of a rollup with the denominator each is taken over
Percentages(metrics, acc) ==
    (IF Truthy(metrics.ec2)
     THEN {<<metrics.ec2.percentageWithMemory, Count(acc, Counter("ec2_running"))>>,
           <<metrics.ec2.percentageWithDisk, Count(acc, Counter("ec2_running"))>>,
           <<metrics.ec2.percentageConnected, Count(acc, Counter("ec2_running"))>>}
     ELSE {})
    \cup (IF Truthy(metrics.rds)
          THEN {<<metrics.rds.percentageMultiAZ, Count(acc, Counter("rds_total"))>>,
                <<metrics.rds.percentageWithPerfInsights, Count(acc, Counter("rds_total"))>>}
          ELSE {})
    \cup {<<metrics.security.percentageExposed, Count(acc, Counter("sg_total"))>>}

\* C15: in every rollup each percentage is an integer from 0 to 100, and it
\* is 0 when its denominator is 0, also for a family that has records (EC2
\* instances none of which is running).
C15_PercentagesSafe ==
    mPc = "got"
        => \A pct \in Percentages(mMetrics, mAcc) :
            /\ pct[1] \in 0..100
            /\ pct[2] = 0 => pct[1] = 0

C15_Witness ==
    /\ mPc = "got"
    /\ Truthy(mMetrics.ec2)
    /\ Count(mAcc, Counter("ec2_total")) = 1
    /\ Count(mAcc, Counter("ec2_running")) = 0
    /\ mMetrics.ec2.percentageConnected = 0
    /\ Count(mAcc, Counter("sg_total")) = 1
    /\ mMetrics.security.percentageExposed = 100

\* the record types that feed each family section (lines 348-410)
FAMILY_TYPES ==
    [ec2 |-> {"EC2Instance"},
     rds |-> {"RDSInstance"},
     storage |-> {"S3Bucket", "EBSVolume", "EBSSnapshot", "AMI", "EFSFileSystem",
                  "FSxFileSystem", "BackupPlan", "BackupVault", "BackupRecoveryPoint"},
     cost |-> {"EBSVolume", "ElasticIP"},
     security |-> {"SecurityGroup"}]

FAMILY_CATEGORY ==
    [ec2 |-> "EC2", rds |-> "RDS", storage |-> "STORAGE", cost |-> "COST",
     security |-> "SECURITY"]

FamilyFed(family) ==
    \E i \in 1..Len(mFed) : Get(mFed[i], "resourceType", "") \in FAMILY_TYPES[family]

WrittenOf(category) == {i \in 1..Len(mWritten) : mWritten[i].id[2] = category}

\* C16: a family with no record since the last reset has no section in the
\* rollup and no metric record in what save_metrics_to_dynamodb writes.
C16_EmptyFamilyOmitted ==
    \A family \in DOMAIN FAMILY_TYPES :
        mPc \in {"got", "saved"} /\ ~FamilyFed(family)
            => /\ ~Truthy(mMetrics[family])
               /\ mPc = "saved" => WrittenOf(FAMILY_CATEGORY[family]) = {}

\* C20: every category that a run saves gets exactly two records, one under
\* its 'current' id and one under its id for the run's date.
C20_TwoRecordsPerCategory ==
    mPc = "saved"
        => \A category \in {"GLOBAL", "EC2", "RDS", "STORAGE", "COST", "SECURITY"} :
            WrittenOf(category) # {}
                => /\ Cardinality(WrittenOf(category)) = 2
                   /\ {mWritten[i].id : i \in WrittenOf(category)}
                        = {CurrentId(category), DatedId(category, Dates[mDate])}

----------------------------------------------------------------------------
(* Claims about ResourceCollector.add_item and save *)

\* every record that was added and is in the buffer or in a handed batch
RECURSIVE HandedItems(_)
HandedItems(handed) ==
    IF handed = <<>> THEN <<>> ELSE Head(handed).items \o HandedItems(Tail(handed))

\* C17: save() hands the buffered records to the batch writer at most once:
\* when it has returned the buffer is empty whatever the writer did, no
\* record is in two batches or still in the buffer, and a save() that follows
\* a save() with no add_item in between returns 0, hands nothing to the
\* writer and leaves the tables alone.
C17_SaveHandsOverOnce ==
    /\ [](bPc = "saved" => bItems = <<>>)
    /\ [](LET all == HandedItems(bHanded) \o bItems
          IN  \A i, j \in 1..Len(all) : all[i].createdAt = all[j].createdAt => i = j)
    /\ [][bPc = "saved" /\ bPc' = "saved"
            => bRet' = 0 /\ bHanded' = bHanded /\ bStore' = bStore /\ bItems' = <<>>]_vars

C17_Witness ==
    /\ bPc = "saved" /\ bRet = 0 /\ bItems = <<>> /\ bAdds = 1
    /\ Len(bHanded) = 1
    /\ bHanded[1].outcome = "all"
    /\ Len(bHanded[1].items) = 1
    /\ bHanded[1].items[1].accountName = bSelf[2]

\* C18: two add_item calls for the same account, region, resource type and
\* native id derive the same id, whatever the collector, its account name,
\* the time and the other properties; each table holds one record per id,
\* and it is the record of the latest write the table accepted.
C18_IdempotentUpsert ==
    /\ \A c, d \in bCalls :
        (c.account = d.account /\ c.region = d.region /\ c.type = d.type
            /\ c.native = d.native) => c.id = d.id
    /\ \A t \in DOMAIN bStore :
        /\ \A r, s \in bStore[t] : r.id = s.id => r = s
        /\ {r.id : r \in bStore[t]} = DOMAIN bLast[t]
        /\ \A r \in bStore[t] : r = bLast[t][r.id]

C18_Witness ==
    /\ Len(bHanded) = 2
    /\ bHanded[1].outcome = "all" /\ bHanded[2].outcome = "all"
    /\ Len(bHanded[1].items) = 1 /\ Len(bHanded[2].items) = 1
    /\ bHanded[1].items[1].id = bHanded[2].items[1].id
    /\ bHanded[1].items[1].state # bHanded[2].items[1].state
    /\ bHanded[1].items[1].accountName # bHanded[2].items[1].accountName
    /\ bStore[1] = {bHanded[2].items[1]}
    /\ bStore[2] = {bHanded[2].items[1]}

----------------------------------------------------------------------------
(* Claims about the totals of a run *)

\* the records produced for an account by the collectors that ran to the end:
\* the storage collector's, if it saved, and those of the region tasks
RecordsProduced(a) ==
    (IF gSaves[a] > 0 THEN gItems[a] ELSE 0)
    + SumOver([r \in Regions |-> IF rwPc[a][r] = "done" THEN rwRet[a][r] ELSE 0], Regions)

RECOGNIZED_TYPES ==
    {"EC2Instance", "RDSInstance", "S3Bucket", "EBSVolume", "ElasticIP",
     "SecurityGroup", "EBSSnapshot", "AMI"} \cup DOMAIN PlainCounters

Recognized(item) == Get(item, "resourceType", "") \in RECOGNIZED_TYPES

\* C21: a record whose resourceType is none of the recognized discriminators
\* leaves the accumulator as it was, so the rollup is the one of the
\* recognized records alone.
C21_UnrecognizedIgnored ==
    GetMetrics(mAcc) = GetMetrics(FeedAll(EmptyAccumulator, SelectSeq(mFed, Recognized)))

\* ---------------------------------------------------------------------------
\* The accumulator fed with more distinct accounts and regions than the rollup
\* lists

\* records of n distinct accounts, each in a region of its own
ManyRecords(n) ==
    [i \in 1..n |->
        [resourceType |-> "VPC", accountId |-> "acct-" \o ToString(i),
         accountName |-> "name-" \o ToString(i), region |-> "region-" \o ToString(i)]]

\* the records fed one by one: any of the many, and the instances that fill
\* the state, health and engine dictionaries
ManyItems ==
    Range(ManyRecords(TOP_N + 1))
    \cup {item \in MetricItems :
            Get(item, "resourceType", "") \in {"EC2Instance", "RDSInstance"}}

\* index.py:57-63: the feed loop of a region task hands the next of its
\* collected records to add_resource
MetricsFeedNext ==
    /\ mPc = "feeding"
    /\ UNCHANGED mOthers
    /\ Len(mFed) <= TOP_N
    /\ mFed = ManyRecords(Len(mFed))
    /\ LET item == ManyRecords(Len(mFed) + 1)[Len(mFed) + 1]
       IN  /\ mAcc' = AddResource(mAcc, item)
           /\ mFed' = Append(mFed, item)
    /\ UNCHANGED <<mPc, mAdds, mMetrics, mDate, mWritten, mStore, mSavedCount, tOps, tTmp>>

MetricsManyNext ==
    \/ MetricsFeedNext
    \/ \E item \in ManyItems : MetricsAdd(item)
    \/ MetricsGet

SpecMetricsMany == InitMetrics /\ [][MetricsManyNext]_vars

\* metrics_calculator.py:71-122: the dictionaries, and the field of a record
\* that keys each of them
CategoryOf(dict, item) ==
    CASE dict = "resource_counts" -> Get(item, "resourceType", "")
      [] dict = "account_counts" -> Get(item, "accountId", "")
      [] dict = "region_counts" -> Get(item, "region", "")
      [] dict = "ec2_states" -> Lower(StrOr(Get(item, "instanceState", ""), "unknown"))
      [] dict = "ec2_health" -> Get(item, "healthStatus", "Unknown")
      [] dict = "rds_engines" -> Get(item, "engine", "unknown")
      [] OTHER -> ""

NonIncreasing(dist) ==
    \A i \in 1..(Len(dist) - 1) : dist[i].count >= dist[i + 1].count

\* C22: the accumulator holds one entry per distinct category value seen and
\* nothing per record, and the account and region distributions of the rollup
\* have at most 10 entries in non-increasing order of count.
C22_BoundedState ==
    /\ \A i, j \in 1..Len(mAcc.order) : mAcc.order[i] = mAcc.order[j] => i = j
    /\ \A k \in Range(mAcc.order) :
            \E i \in 1..Len(mFed) : k[2] # "" /\ k[2] = CategoryOf(k[1], mFed[i])
    /\ \A k \in DOMAIN mAcc.count : IsDictEntry(k) => k \in Range(mAcc.order)
    /\ \A a \in DOMAIN mAcc.names : \E i \in 1..Len(mFed) : Get(mFed[i], "accountId", "") = a
    /\ mPc = "got" =>
        /\ Len(mMetrics.global.accountDistribution) <= TOP_N
        /\ Len(mMetrics.global.regionDistribution) <= TOP_N
        /\ NonIncreasing(mMetrics.global.accountDistribution)
        /\ NonIncreasing(mMetrics.global.regionDistribution)

C22_Witness ==
    /\ mPc = "got"
    /\ Len(DictKeys(mAcc, "account_counts")) = TOP_N + 1
    /\ Len(mFed) > TOP_N + 1
    /\ Len(mMetrics.global.accountDistribution) = TOP_N
    /\ mMetrics.global.accountDistribution[1].count = 3
    /\ mMetrics.global.accountDistribution[1].accountId = "acct-11"

\* ---------------------------------------------------------------------------
\* The backoff sleeps

\* C23: in either retry loop, whatever the jitter, a sleep is at least as
\* long as the sleep before it.
C23_DelaysNonDecreasing ==
    \A i \in 1..(Len(kDelays) - 1) : kDelays[i] <= kDelays[i + 1]

C23_Witness ==
    /\ kLoop = "delete"
    /\ Len(kDelays) = DELETE_MAX_RETRIES
    /\ kDelays[1] = 2 * DELETE_BACKOFF_MS + (DELETE_BACKOFF_MS - 1)
    /\ kDelays[2] = 4 * DELETE_BACKOFF_MS

\* ---------------------------------------------------------------------------
\* Clearing a table that holds metric records

\* C26: clear_dynamodb_table issues no delete request for a record whose
\* isMetric field is true: the metric records the table held are all still
\* there when the call returns.
C26_MetricRecordsKept ==
    xPc = "returned" =>
        \A r \in xBefore : HasMetricFlag(r) => r.id \notin xRequested /\ r \in xTable

\* ---------------------------------------------------------------------------
\* The stages of an account run and the records fed to the accumulator

\* C24: an account discovers its regions only after its global collection
\* has been done.
C24_GlobalBeforeDiscovery ==
    \A a \in Accounts : aDiscoveries[a] > 0 => gCollects[a] > 0

\* C25: when a region has finished, the accumulator has been fed every record
\* that a collector's collect() returned, whatever became of its save().
C25_EveryCollectedRecordFed ==
    rPc = "returned" => rFed = SumOver(cReturned, Collectors)

C28_ReturnsPrimaryCount ==
    mPc = "saved" =>
        /\ mSavedCount = Len(mWritten) =>
                \A i \in 1..Len(mWritten) :
                    [id |-> mWritten[i].id, metricDate |-> mWritten[i].metricDate]
                        \in mStore[1]
        /\ mStore[1] = {} => mSavedCount = 0

\* the fed records of running instances on which neither kind of monitoring
\* was detected
RunningUnmonitored(fed) ==
    {i \in 1..Len(fed) :
        /\ Get(fed[i], "resourceType", "") = "EC2Instance"
        /\ Lower(StrOr(Get(fed[i], "instanceState", ""), "unknown")) = "running"
        /\ ~Get(fed[i], "cwAgentMemoryDetected", FALSE)
        /\ ~Get(fed[i], "cwAgentDiskDetected", FALSE)}

\* C29: noneEnabled is the number of running instances with neither memory
\* nor disk monitoring, which is running - memoryMonitoring - diskMonitoring
\* + bothEnabled.
C29_NoneEnabled ==
    mPc = "got" /\ Truthy(mMetrics.ec2) =>
        /\ mMetrics.ec2.noneEnabled = Cardinality(RunningUnmonitored(mFed))
        /\ mMetrics.ec2.noneEnabled =
                Count(mAcc, Counter("ec2_running")) - mMetrics.ec2.memoryMonitoring
                - mMetrics.ec2.diskMonitoring + mMetrics.ec2.bothEnabled

\* ---------------------------------------------------------------------------
\* The summary of a run with an account error

====
